---- MODULE Spec2Model ----
(***************************************************************************)
(* The download manager of src/src/downloader.py as a state machine: the   *)
(* task registry with its pause events, cancellation flags and worker      *)
(* threads, the semaphore that bounds the running workers, and each        *)
(* worker's position in _download_worker, with the acquisition engine      *)
(* (yt_dlp) as a nondeterministic source of callbacks, returns and raises. *)
(***************************************************************************)
EXTENDS Integers, Sequences, FiniteSets, TLC

VARIABLES
    tasks,          \* DownloadManager._tasks: task id -> DownloadTask
    detached,       \* DownloadTask objects deleted from _tasks that a live worker still holds
    pause_events,   \* DownloadManager._pause_events: task id -> is the Event set
    cancel_flags,   \* DownloadManager._cancel_flags: task id -> bool
    threads,        \* DownloadManager._threads: task id -> handle of the last thread started
    workers,        \* the live threads running _download_worker: <<task id, handle>> -> position
    semaphore,      \* DownloadManager._semaphore: the free slots
    files,          \* the files on disk: <<kind, task id>>
    ffmpeg,         \* shutil.which('ffmpeg') is not None
    state_file,     \* the file at Config.tasks_path
    next_id,        \* the number of ids create_task has drawn
    pending_spawn,  \* resume_task calls between the is_alive test and thread.start(), per task id
    history,        \* HistoryStore: the last call recorded for each registered task, and its
                    \* status; `followed` is FALSE in the specifications that leave the store out
    notified,       \* the snapshot the progress callback was last called with, per registered task
    window          \* GrabFromAPI._window.evaluate_js runs (the window is open)

vars == <<tasks, detached, pause_events, cancel_flags, threads, workers,
          semaphore, files, ffmpeg, state_file, next_id, pending_spawn,
          history, notified, window>>

-----------------------------------------------------------------------------
(* Bounds *)

\* the number of create_task calls of a run
MaxTasks == 1
\* the max_concurrent the manager is constructed with
MaxConcurrent == 1
\* the number of threads of one task, started or about to be, that the
\* concurrent callers of resume_task may reach
MaxInflight == 2

-----------------------------------------------------------------------------
(* TaskStatus and the stage labels *)

PENDING == "pending"
DOWNLOADING == "downloading"
PAUSED == "paused"
COMPLETED == "completed"
FAILED == "failed"
CANCELLED == "cancelled"

TaskStatus == {PENDING, DOWNLOADING, PAUSED, COMPLETED, FAILED, CANCELLED}

AudioFormats == {"mp3", "m4a", "flac"}

\* the messages of Messages and of the engine's DownloadError, by class
DOWNLOAD_CANCELLED == "download_cancelled"
FORMAT_UNAVAILABLE == "requested format is not available"
HTTP_403 == "http error 403"
ENGINE_ERROR == "engine error"
DOWNLOAD_FAILED == "download_failed"

\* _retry_with_cookies: the browsers tried, in order
Browsers == <<"chrome", "edge", "brave", "firefox", "safari">>

-----------------------------------------------------------------------------
(* Helpers on dicts *)

Put(f, k, v) == [x \in (DOMAIN f) \cup {k} |-> IF x = k THEN v ELSE f[x]]
Pop(f, k) == [x \in (DOMAIN f) \ {k} |-> f[x]]
Get(f, k, default) == IF k \in DOMAIN f THEN f[k] ELSE default

EmptyDict == [x \in {} |-> FALSE]

-----------------------------------------------------------------------------
(* DownloadTask *)

\* a locator the engine accepts; create_task takes any string, the empty one too
URL == "https://example.com/v"

\* the create_task arguments the model varies: a stream that carries both
\* audio and video, a video-only stream that needs a merge, an audio output of
\* either
Profiles ==
    { [url |-> URL, output_format |-> "mp4", has_audio |-> TRUE],
      [url |-> URL, output_format |-> "mp4", has_audio |-> FALSE],
      [url |-> URL, output_format |-> "mp3", has_audio |-> TRUE],
      [url |-> URL, output_format |-> "mp3", has_audio |-> FALSE] }

\* output_path and audio_path: TRUE when the field holds a path (the task's own);
\* percent is progress.percent in hundredths of a percent, downloaded_bytes is
\* progress.downloaded_bytes
DownloadTask(p) ==
    [ url |-> p.url,
      format_id |-> "137",
      output_format |-> p.output_format,
      include_audio |-> TRUE,
      has_audio |-> p.has_audio,
      has_video |-> TRUE,
      audio_path |-> FALSE,
      output_path |-> FALSE,
      status |-> PENDING,
      stage |-> PENDING,
      percent |-> 0,
      downloaded_bytes |-> 0,
      error_message |-> "" ]

_needs_merge(task) ==
    IF ~ffmpeg THEN FALSE
    ELSE task.include_audio /\ task.has_video /\ ~task.has_audio

_needs_extract(task) == task.output_format \in AudioFormats

\* n percent, in the unit of the percent field
Pct(n) == n * 100

Min(a, b) == IF a < b THEN a ELSE b
Max(a, b) == IF a > b THEN a ELSE b

\* the stage labels for which stage.startswith('downloading')
DownloadingStages == {"downloading", "downloading_video", "downloading_audio"}

\* _calculate_overall_percent that gives the audio stream the video stream's share
_calculate_overall_percent_no_offset(task, downloaded_bytes, total_bytes, stage) ==
    IF total_bytes <= 0 THEN task.percent
    ELSE LET download_percent ==
                 Min(Max((downloaded_bytes * Pct(100)) \div total_bytes, 0), Pct(100))
         IN IF _needs_extract(task)
            THEN Min((download_percent * 9) \div 10, Pct(90))
            ELSE IF _needs_merge(task)
            THEN Min((download_percent * 45) \div 100, Pct(45))
            ELSE download_percent

\* _calculate_overall_percent that divides whatever the total is
_calculate_overall_percent_unguarded(task, downloaded_bytes, total_bytes, stage) ==
    IF total_bytes <= 0 THEN 0
    ELSE Min(Max((downloaded_bytes * Pct(100)) \div total_bytes, 0), Pct(100))

\* _calculate_overall_percent without the clamp of line 197
_calculate_overall_percent_unclamped(task, downloaded_bytes, total_bytes, stage) ==
    IF total_bytes <= 0 THEN task.percent
    ELSE LET download_percent ==
                 (downloaded_bytes * Pct(100)) \div total_bytes
         IN IF _needs_extract(task)
            THEN IF stage \in DownloadingStages
                 THEN Min((download_percent * 9) \div 10, Pct(90))
                 ELSE IF stage \in {"extracting_audio", "processing"}
                 THEN Pct(95)
                 ELSE download_percent
            ELSE IF _needs_merge(task)
            THEN IF stage = "downloading_video"
                 THEN Min((download_percent * 45) \div 100, Pct(45))
                 ELSE IF stage = "downloading_audio"
                 THEN Pct(45) + Min((download_percent * 45) \div 100, Pct(45))
                 ELSE IF stage = "merging"
                 THEN Pct(95)
                 ELSE Min(download_percent, Pct(95))
            ELSE download_percent

\* _calculate_overall_percent, lines 186-217
_calculate_overall_percent(task, downloaded_bytes, total_bytes, stage) ==
    IF total_bytes <= 0 THEN task.percent
    ELSE LET download_percent ==
                 Min(Max((downloaded_bytes * Pct(100)) \div total_bytes, 0), Pct(100))
         IN IF _needs_extract(task)
            THEN IF stage \in DownloadingStages
                 THEN Min((download_percent * 9) \div 10, Pct(90))
                 ELSE IF stage \in {"extracting_audio", "processing"}
                 THEN Pct(95)
                 ELSE download_percent
            ELSE IF _needs_merge(task)
            THEN IF stage = "downloading_video"
                 THEN Min((download_percent * 45) \div 100, Pct(45))
                 ELSE IF stage = "downloading_audio"
                 THEN Pct(45) + Min((download_percent * 45) \div 100, Pct(45))
                 ELSE IF stage = "merging"
                 THEN Pct(95)
                 ELSE Min(download_percent, Pct(95))
            ELSE download_percent

\* _build_ydl_opts raises Exception (FFMPEG_AUDIO_REQUIRED, FFMPEG_MERGE_REQUIRED)
BuildRaises(task) ==
    IF task.output_format \in AudioFormats THEN ~ffmpeg
    ELSE /\ task.include_audio
         /\ ~(task.has_audio /\ task.has_video)
         /\ ~ffmpeg

_is_format_unavailable(error_msg) == error_msg = FORMAT_UNAVAILABLE
_is_http_403(error_msg) == error_msg = HTTP_403

-----------------------------------------------------------------------------
(* Worker threads *)

NoOrig == [format_id |-> "", has_audio |-> FALSE, has_video |-> FALSE]

\* threading.Thread(target=self._download_worker).start()
\* error_msg is the worker's local of line 461, "" until a DownloadError is caught
NewThread ==
    [pc |-> "queued", mode |-> "primary", browser |-> 0, orig |-> NoOrig, error_msg |-> ""]

LiveOf(t) == {w \in DOMAIN workers : w[1] = t}

\* thread.is_alive() of self._threads.get(task_id)
ThreadAlive(t) == t \in DOMAIN threads /\ <<t, threads[t]>> \in DOMAIN workers

FreeHandle(t) ==
    CHOOSE k \in 1..MaxInflight :
        /\ <<t, k>> \notin DOMAIN workers
        /\ \A j \in 1..(k - 1) : <<t, j>> \in DOMAIN workers

\* the workers that hold the DownloadTask object in their local `task`
Bound(W, t) == {w \in DOMAIN W : w[1] = t /\ W[w].pc \notin {"queued", "acquired"}}

\* pause_event.set(): every thread waiting in pause_event.wait() returns, to
\* line 677; pc is "checkpoint" when resume_task set the event and "interrupted"
\* when cancel_task did
Wake(W, t, pc) ==
    [w \in DOMAIN W |->
        IF w[1] = t /\ W[w].pc = "blocked"
        THEN [W[w] EXCEPT !.pc = pc]
        ELSE W[w]]

\* the DownloadTask a worker of task t holds
Obj(t) == IF t \in DOMAIN tasks THEN tasks[t] ELSE detached[t]

-----------------------------------------------------------------------------
(* The observers of the manager: the progress callback that GrabFromAPI     *)
(* registers (api.py) and the history store (history.py).                   *)

\* the fields of DownloadTask.to_dict a listener follows: status, stage and
\* progress
Snapshot(task) ==
    [status |-> task.status, stage |-> task.stage, percent |-> task.percent,
     downloaded_bytes |-> task.downloaded_bytes]

\* webview.Window.evaluate_js: it raises once the window is closed
evaluate_js(open) == IF open THEN "returned" ELSE "raised"

\* _on_progress_update without its handler
_on_progress_update_unguarded(open) == evaluate_js(open)

\* api.py, lines 37-45: try: evaluate_js(...) except Exception: pass
_on_progress_update(open) ==
    IF evaluate_js(open) = "raised" THEN "returned" ELSE evaluate_js(open)

\* the callback raises out of _notify_progress, which has no handler
CallbackRaises == _on_progress_update(window) = "raised"

\* _notify_progress, lines 151-155: the callback is called with the snapshot of
\* a task that is in the registry
_notify_progress(seen, registry, task_id, task) ==
    IF task_id \in DOMAIN registry THEN Put(seen, task_id, Snapshot(task)) ELSE seen

\* the row a call leaves: status = task.status.value; finished_at is NULL
\* after record_start and set after record_finish
Row(call, task) == [call |-> call, status |-> task.status]

\* the store with no row, followed or left out
EmptyStore == [followed |-> TRUE, rows |-> EmptyDict]
Unfollowed == [followed |-> FALSE, rows |-> EmptyDict]

\* history.py, lines 82-181
record_start(store, task_id, task) ==
    IF ~store.followed \/ task.url = "" THEN store
    ELSE [store EXCEPT !.rows = Put(@, task_id, Row("record_start", task))]

\* history.py, lines 183-299
record_finish(store, task_id, task) ==
    IF ~store.followed \/ task.url = "" THEN store
    ELSE [store EXCEPT !.rows = Put(@, task_id, Row("record_finish", task))]

-----------------------------------------------------------------------------
(* The manager's API.  Each method is an operator from the state it is      *)
(* called in to its return value and the state it leaves; the action of a   *)
(* call applies that result in one step.  A call that returns False leaves  *)
(* the state as it is: it is a stuttering step.                             *)

\* what a method can read and write
Manager ==
    [ tasks |-> tasks, detached |-> detached, pause_events |-> pause_events,
      cancel_flags |-> cancel_flags, threads |-> threads, workers |-> workers,
      files |-> files, history |-> history, notified |-> notified ]

\* `return value` from the state m
Return(value, m) == [ret |-> value, m |-> m]

Apply(r) ==
    /\ tasks' = r.m.tasks
    /\ detached' = r.m.detached
    /\ pause_events' = r.m.pause_events
    /\ cancel_flags' = r.m.cancel_flags
    /\ threads' = r.m.threads
    /\ workers' = r.m.workers
    /\ files' = r.m.files
    /\ history' = r.m.history
    /\ notified' = r.m.notified

\* _register_task that sets the Event whatever the status
_register_task_open(m, id, task) ==
    [m EXCEPT !.tasks = Put(m.tasks, id, task),
              !.pause_events = Put(m.pause_events, id, TRUE),
              !.cancel_flags = Put(m.cancel_flags, id, Get(m.cancel_flags, id, FALSE))]

\* _register_task: the Event is set unless the task is paused
_register_task(m, id, task) ==
    [m EXCEPT !.tasks = Put(m.tasks, id, task),
              !.pause_events = Put(m.pause_events, id, task.status # PAUSED),
              !.cancel_flags = Put(m.cancel_flags, id, Get(m.cancel_flags, id, FALSE))]

\* thread = threading.Thread(...); self._threads[task_id] = thread; thread.start()
StartThread(m, t) ==
    [m EXCEPT !.threads = Put(m.threads, t, FreeHandle(t)),
              !.workers = Put(m.workers, <<t, FreeHandle(t)>>, NewThread)]

\* str(uuid.uuid4())[:8] when the eight digits are ones no task has had
FreshId == next_id + 1

\* create_task when uuid4 gives the id `id`
create_task_as(id, p) ==
    LET task == DownloadTask(p)
        m == _register_task(Manager, id, task)
    IN Return(id, StartThread([m EXCEPT !.history = record_start(history, id, task)], id))

create_task(p) == create_task_as(FreshId, p)

\* pause_task that also pauses a task still waiting for its slot
pause_task_pending(t) ==
    IF t \notin DOMAIN tasks THEN Return(FALSE, Manager)
    ELSE IF tasks[t].status \notin {DOWNLOADING, PENDING} THEN Return(FALSE, Manager)
    ELSE LET o == [tasks[t] EXCEPT !.status = PAUSED, !.stage = PAUSED]
         IN Return(TRUE,
               [Manager EXCEPT !.pause_events[t] = FALSE,
                               !.tasks[t] = o,
                               !.notified = _notify_progress(notified, tasks, t, o)])

pause_task(t) ==
    IF t \notin DOMAIN tasks THEN Return(FALSE, Manager)
    ELSE IF tasks[t].status # DOWNLOADING THEN Return(FALSE, Manager)
    ELSE IF t \in DOMAIN pause_events
    THEN LET o == [tasks[t] EXCEPT !.status = PAUSED, !.stage = PAUSED]
         IN Return(TRUE,
               [Manager EXCEPT !.pause_events[t] = FALSE,
                               !.tasks[t] = o,
                               !.notified = _notify_progress(notified, tasks, t, o)])
    ELSE Return(FALSE, Manager)

\* resume_task, lines 827-845: up to the test of thread.is_alive()
ResumeFields(t) ==
    LET o == [tasks[t] EXCEPT !.status = DOWNLOADING, !.stage = DOWNLOADING,
                              !.error_message = ""]
    IN [Manager EXCEPT !.pause_events = Put(pause_events, t, TRUE),
                       !.workers = Wake(workers, t, "checkpoint"),
                       !.tasks[t] = o,
                       !.cancel_flags = Put(cancel_flags, t, FALSE),
                       !.history = record_start(history, t, o),
                       !.notified = _notify_progress(notified, tasks, t, o)]

\* resume_task that starts a thread without the test of is_alive()
resume_task_always_starts(t) ==
    IF t \notin DOMAIN tasks THEN Return(FALSE, Manager)
    ELSE IF tasks[t].status # PAUSED THEN Return(FALSE, Manager)
    ELSE Return(TRUE, StartThread(ResumeFields(t), t))

\* resume_task, its caller not interleaved with another caller; a callback
\* that raises at line 845 ends the call before the thread is started
resume_task(t) ==
    IF t \notin DOMAIN tasks THEN Return(FALSE, Manager)
    ELSE IF tasks[t].status # PAUSED THEN Return(FALSE, Manager)
    ELSE IF ThreadAlive(t) \/ CallbackRaises
    THEN Return(TRUE, ResumeFields(t))
    ELSE Return(TRUE, StartThread(ResumeFields(t), t))

\* cancel_task that leaves the pause event as it is
cancel_task_keeps_gate(t) ==
    IF t \notin DOMAIN tasks THEN Return(FALSE, Manager)
    ELSE IF tasks[t].status \in {COMPLETED, CANCELLED} THEN Return(FALSE, Manager)
    ELSE LET o == [tasks[t] EXCEPT !.status = CANCELLED, !.stage = CANCELLED]
         IN Return(TRUE,
               [Manager EXCEPT !.cancel_flags = Put(cancel_flags, t, TRUE),
                               !.tasks[t] = o,
                               !.notified = _notify_progress(notified, tasks, t, o),
                               !.history = IF CallbackRaises THEN history
                                           ELSE record_finish(history, t, o)])

\* cancel_task; a callback that raises at line 878 ends the call before
\* record_finish
cancel_task(t) ==
    IF t \notin DOMAIN tasks THEN Return(FALSE, Manager)
    ELSE IF tasks[t].status \in {COMPLETED, CANCELLED} THEN Return(FALSE, Manager)
    ELSE LET o == [tasks[t] EXCEPT !.status = CANCELLED, !.stage = CANCELLED]
         IN Return(TRUE,
               [Manager EXCEPT !.cancel_flags = Put(cancel_flags, t, TRUE),
                               !.pause_events =
                                   IF t \in DOMAIN pause_events
                                   THEN [pause_events EXCEPT ![t] = TRUE] ELSE @,
                               !.workers =
                                   IF t \in DOMAIN pause_events
                                   THEN Wake(workers, t, "interrupted") ELSE @,
                               !.tasks[t] = o,
                               !.notified = _notify_progress(notified, tasks, t, o),
                               !.history = IF CallbackRaises THEN history
                                           ELSE record_finish(history, t, o)])

\* remove_task that unlinks output_path and leaves audio_path
RemovedFiles_output_only(t, task) ==
    {f \in files : f[2] = t /\ f[1] \in {"out", "part"} /\ task.output_path}

\* the files remove_task unlinks: output_path, audio_path, and the fragments
\* _cleanup_temp_files finds beside output_path
RemovedFiles(t, task) ==
    {f \in files :
        /\ f[2] = t
        /\ \/ f[1] = "out" /\ task.output_path
           \/ f[1] = "audio" /\ task.audio_path
           \/ f[1] = "part" /\ task.output_path}

\* remove_task called in the state m; the ledger is left alone, and the
\* callback's last snapshot goes with the task
remove_task_in(m, t) ==
    IF t \notin DOMAIN m.tasks THEN Return(FALSE, m)
    ELSE IF m.tasks[t].status \notin {COMPLETED, CANCELLED, FAILED}
    THEN Return(FALSE, m)
    ELSE Return(TRUE,
            [m EXCEPT !.files = m.files \ RemovedFiles(t, m.tasks[t]),
                      !.tasks = Pop(m.tasks, t),
                      !.detached = IF Bound(m.workers, t) # {}
                                   THEN Put(m.detached, t, m.tasks[t]) ELSE @,
                      !.pause_events = Pop(m.pause_events, t),
                      !.cancel_flags = Pop(m.cancel_flags, t),
                      !.threads = Pop(m.threads, t),
                      !.notified = Pop(m.notified, t)])

remove_task(t) == remove_task_in(Manager, t)

\* the loop of clear_completed that also removes the cancelled and the failed
\* tasks
RECURSIVE ClearLoop_terminal(_, _, _)
ClearLoop_terminal(m, task_ids, count) ==
    IF task_ids = {} THEN Return(count, m)
    ELSE LET task_id == CHOOSE x \in task_ids : \A y \in task_ids : x <= y
             rest == task_ids \ {task_id}
         IN IF task_id \in DOMAIN m.tasks
               /\ m.tasks[task_id].status \in {COMPLETED, CANCELLED, FAILED}
            THEN ClearLoop_terminal(remove_task_in(m, task_id).m, rest, count + 1)
            ELSE ClearLoop_terminal(m, rest, count)

\* the loop of clear_completed, lines 926-930, over the ids still to visit:
\* the count grows whatever remove_task returns
RECURSIVE ClearLoop(_, _, _)
ClearLoop(m, task_ids, count) ==
    IF task_ids = {} THEN Return(count, m)
    ELSE LET task_id == CHOOSE x \in task_ids : \A y \in task_ids : x <= y
             rest == task_ids \ {task_id}
         IN IF task_id \in DOMAIN m.tasks /\ m.tasks[task_id].status = COMPLETED
            THEN ClearLoop(remove_task_in(m, task_id).m, rest, count + 1)
            ELSE ClearLoop(m, rest, count)

\* clear_completed, lines 921-932
clear_completed == ClearLoop(Manager, DOMAIN tasks, 0)

CreateTask(p) ==
    /\ Apply(create_task(p))
    /\ next_id' = create_task(p).ret
    /\ UNCHANGED <<semaphore, ffmpeg, window, state_file, pending_spawn>>

\* create_task when the first eight digits of uuid4 are `id`; next_id counts
\* the calls
CreateTaskAs(id, p) ==
    /\ Apply(create_task_as(id, p))
    /\ next_id' = next_id + 1
    /\ UNCHANGED <<semaphore, ffmpeg, window, state_file, pending_spawn>>

PauseTask(t) ==
    /\ pause_task(t).ret
    /\ Apply(pause_task(t))
    /\ UNCHANGED <<semaphore, ffmpeg, window, state_file, next_id, pending_spawn>>

ResumeTask(t) ==
    /\ resume_task(t).ret
    /\ Apply(resume_task(t))
    /\ UNCHANGED <<semaphore, ffmpeg, window, state_file, next_id, pending_spawn>>

CancelTask(t) ==
    /\ cancel_task(t).ret
    /\ Apply(cancel_task(t))
    /\ UNCHANGED <<semaphore, ffmpeg, window, state_file, next_id, pending_spawn>>

RemoveTask(t) ==
    /\ remove_task(t).ret
    /\ Apply(remove_task(t))
    /\ UNCHANGED <<semaphore, ffmpeg, window, state_file, next_id, pending_spawn>>

ClearCompleted ==
    /\ Apply(clear_completed)
    /\ UNCHANGED <<semaphore, ffmpeg, window, state_file, next_id, pending_spawn>>

\* resume_task called while other resume_task calls are in flight: the call up
\* to the test `not thread or not thread.is_alive()` (lines 827-848) ...
ResumeTaskTest(t) ==
    /\ resume_task(t).ret
    /\ Cardinality(LiveOf(t)) + Get(pending_spawn, t, 0) < MaxInflight
    /\ Apply(Return(TRUE, ResumeFields(t)))
    /\ pending_spawn' = IF ThreadAlive(t) \/ CallbackRaises THEN pending_spawn
                        ELSE Put(pending_spawn, t, Get(pending_spawn, t, 0) + 1)
    /\ UNCHANGED <<semaphore, ffmpeg, window, state_file, next_id>>

\* ... and the thread it starts when the test found no live thread (lines 849-855)
ResumeTaskStart(t) ==
    /\ Get(pending_spawn, t, 0) > 0
    /\ Apply(Return(TRUE, StartThread(Manager, t)))
    /\ pending_spawn' = IF pending_spawn[t] = 1 THEN Pop(pending_spawn, t)
                        ELSE [pending_spawn EXCEPT ![t] = @ - 1]
    /\ UNCHANGED <<semaphore, ffmpeg, window, state_file, next_id>>

-----------------------------------------------------------------------------
(* _download_worker.  A worker w = <<task id, handle>> takes one step per   *)
(* read or write of state it shares with the API callers.                   *)

\* an assignment to the fields of the worker's `task`
Assign(t, o) ==
    IF t \in DOMAIN tasks
    THEN tasks' = [tasks EXCEPT ![t] = o] /\ UNCHANGED detached
    ELSE detached' = [detached EXCEPT ![t] = o] /\ UNCHANGED tasks

\* an exit that keeps the slot
Finish_keeps_slot(w, o) ==
    /\ workers' = Pop(workers, w)
    /\ UNCHANGED semaphore
    /\ IF w[1] \in DOMAIN tasks
       THEN tasks' = [tasks EXCEPT ![w[1]] = o] /\ UNCHANGED detached
       ELSE /\ UNCHANGED tasks
            /\ detached' = IF Bound(workers, w[1]) \ {w} = {}
                           THEN Pop(detached, w[1])
                           ELSE [detached EXCEPT ![w[1]] = o]

\* the worker's last assignment and its exit through finally: semaphore.release()
Finish(w, o) ==
    /\ workers' = Pop(workers, w)
    /\ semaphore' = semaphore + 1
    /\ IF w[1] \in DOMAIN tasks
       THEN tasks' = [tasks EXCEPT ![w[1]] = o] /\ UNCHANGED detached
       ELSE /\ UNCHANGED tasks
            /\ detached' = IF Bound(workers, w[1]) \ {w} = {}
                           THEN Pop(detached, w[1])
                           ELSE [detached EXCEPT ![w[1]] = o]

\* the worker's self._notify_progress(task_id) when its task reads o
Notify(t, o) == notified' = _notify_progress(notified, tasks, t, o)

\* the worker's self._history.record_finish(task) when its task reads o,
\* registered or not
Record(t, o) == history' = record_finish(history, t, o)

\* the end of a run: the last assignment, record_finish where the path calls
\* it, the notification of line 505 where the path reaches it, and the exit
Exit(w, o, recorded, notifies) ==
    /\ Finish(w, o)
    /\ IF recorded THEN Record(w[1], o) ELSE UNCHANGED history
    /\ IF notifies THEN Notify(w[1], o) ELSE UNCHANGED notified

\* lines 499-503
Failed(o) ==
    [o EXCEPT !.status = FAILED, !.stage = FAILED, !.error_message = DOWNLOAD_FAILED]

Goto(w, pc) == workers' = [workers EXCEPT ![w].pc = pc]

\* acquire that does not wait for a free slot
acquire_nonblocking(w) ==
    /\ workers[w].pc = "queued"
    /\ semaphore' = semaphore - 1
    /\ Goto(w, "acquired")
    /\ UNCHANGED <<tasks, detached, pause_events, cancel_flags, threads, files,
                   ffmpeg, window, state_file, next_id, pending_spawn, history,
                   notified>>

\* line 393: self._semaphore.acquire()
acquire(w) ==
    /\ workers[w].pc = "queued"
    /\ semaphore > 0
    /\ semaphore' = semaphore - 1
    /\ Goto(w, "acquired")
    /\ UNCHANGED <<tasks, detached, pause_events, cancel_flags, threads, files,
                   ffmpeg, window, state_file, next_id, pending_spawn, history,
                   notified>>

\* lines 396-398 without the test of line 401
check_cancelled_untested(w) ==
    /\ workers[w].pc = "acquired"
    /\ IF w[1] \notin DOMAIN tasks
       THEN /\ workers' = Pop(workers, w)
            /\ semaphore' = semaphore + 1
       ELSE Goto(w, "marking") /\ UNCHANGED semaphore
    /\ UNCHANGED <<tasks, detached, history, notified, pause_events, cancel_flags,
                   threads, files, ffmpeg, window, state_file, next_id, pending_spawn>>

\* lines 396-405: the task is gone, or was cancelled while the worker queued;
\* a callback that raises at line 403 ends the run before record_finish
check_cancelled(w) ==
    /\ workers[w].pc = "acquired"
    /\ IF w[1] \notin DOMAIN tasks
       THEN /\ workers' = Pop(workers, w)
            /\ semaphore' = semaphore + 1
            /\ UNCHANGED <<tasks, detached, history, notified>>
       ELSE IF Get(cancel_flags, w[1], FALSE)
       THEN Exit(w, [tasks[w[1]] EXCEPT !.status = CANCELLED], ~CallbackRaises, TRUE)
       ELSE Goto(w, "marking") /\ UNCHANGED <<tasks, detached, semaphore, history, notified>>
    /\ UNCHANGED <<pause_events, cancel_flags, threads, files, ffmpeg, window, state_file,
                   next_id, pending_spawn>>

\* lines 407-440: mark the task downloading, notify, resolve the path, build
\* the options; a callback that raises at line 409 ends the run there
mark_downloading(w) ==
    /\ workers[w].pc = "marking"
    /\ LET marked == [Obj(w[1]) EXCEPT !.status = DOWNLOADING, !.stage = DOWNLOADING]
           o == [marked EXCEPT !.output_path = TRUE]
       IN /\ Notify(w[1], marked)
          /\ IF CallbackRaises
             THEN Finish(w, marked)
             ELSE IF BuildRaises(o)
             THEN Finish(w, o)
             ELSE Assign(w[1], o) /\ Goto(w, "transfer") /\ UNCHANGED semaphore
    /\ UNCHANGED <<pause_events, cancel_flags, threads, files, ffmpeg, window, state_file,
                   next_id, pending_spawn, history>>

\* lines 490-498 and 505: the run ends without a successful retry
Surface(w, o, error_msg) ==
    Exit(w, IF Get(cancel_flags, w[1], FALSE)
            THEN [o EXCEPT !.status = CANCELLED, !.stage = CANCELLED,
                           !.error_message = ""]
            ELSE [o EXCEPT !.status = FAILED, !.stage = FAILED,
                           !.error_message = error_msg],
         TRUE, TRUE)

\* _retry_with_fallback_format: the relaxed selection
Relaxed(task) ==
    IF task.include_audio
    THEN IF ffmpeg
         THEN [task EXCEPT !.format_id = "", !.has_audio = FALSE, !.has_video = TRUE]
         ELSE [task EXCEPT !.format_id = "best", !.has_audio = TRUE, !.has_video = TRUE]
    ELSE [task EXCEPT !.format_id = ""]

Original(task) ==
    [format_id |-> task.format_id, has_audio |-> task.has_audio,
     has_video |-> task.has_video]

\* the failed relaxed attempt that leaves the relaxed selection in the task
Restored_kept(task, orig) == task

\* lines 577-579
Restored(task, orig) ==
    [task EXCEPT !.format_id = orig.format_id, !.has_audio = orig.has_audio,
                 !.has_video = orig.has_video]

\* the next attempt of the run: the task reads o, the worker is at `position`
Retry(w, o, position) ==
    /\ Assign(w[1], o)
    /\ workers' = [workers EXCEPT ![w] = position]
    /\ UNCHANGED <<semaphore, history, notified>>

\* OnRaise in which an access-denied failure of the relaxed attempt goes on to
\* the browser credentials
OnRaise_chained(w, o, exc) ==
    LET me == workers[w]
    IN CASE me.mode = "primary" ->
              IF exc = "exception"
              THEN Exit(w, Failed(o), TRUE, TRUE)
              ELSE IF _is_format_unavailable(exc)
              THEN IF o.output_format \in AudioFormats \/ BuildRaises(Relaxed(o))
                   THEN Surface(w, o, exc)
                   ELSE Retry(w, Relaxed(o),
                              [pc |-> "transfer", mode |-> "fallback", browser |-> 0,
                               orig |-> Original(o), error_msg |-> exc])
              ELSE IF _is_http_403(exc)
              THEN IF BuildRaises(o)
                   THEN Surface(w, o, exc)
                   ELSE Retry(w, o,
                              [pc |-> "transfer", mode |-> "cookies", browser |-> 1,
                               orig |-> NoOrig, error_msg |-> exc])
              ELSE Surface(w, o, exc)
         [] me.mode = "fallback" ->
              IF _is_http_403(exc)
              THEN Retry(w, Restored(o, me.orig),
                         [pc |-> "transfer", mode |-> "cookies", browser |-> 1,
                          orig |-> NoOrig, error_msg |-> me.error_msg])
              ELSE Surface(w, Restored(o, me.orig), me.error_msg)
         [] me.mode = "cookies" ->
              IF me.browser < Len(Browsers)
              THEN Retry(w, o, [me EXCEPT !.pc = "transfer", !.browser = me.browser + 1])
              ELSE Surface(w, o, me.error_msg)

\* OnRaise in which a run that ends after a retry keeps the message of the
\* last failure
OnRaise_latest(w, o, exc) ==
    LET me == workers[w]
    IN CASE me.mode = "primary" ->
              IF exc = "exception"
              THEN Exit(w, Failed(o), TRUE, TRUE)
              ELSE IF _is_format_unavailable(exc)
              THEN IF o.output_format \in AudioFormats \/ BuildRaises(Relaxed(o))
                   THEN Surface(w, o, exc)
                   ELSE Retry(w, Relaxed(o),
                              [pc |-> "transfer", mode |-> "fallback", browser |-> 0,
                               orig |-> Original(o), error_msg |-> exc])
              ELSE IF _is_http_403(exc)
              THEN IF BuildRaises(o)
                   THEN Surface(w, o, exc)
                   ELSE Retry(w, o,
                              [pc |-> "transfer", mode |-> "cookies", browser |-> 1,
                               orig |-> NoOrig, error_msg |-> exc])
              ELSE Surface(w, o, exc)
         [] me.mode = "fallback" ->
              Surface(w, Restored(o, me.orig), exc)
         [] me.mode = "cookies" ->
              IF me.browser < Len(Browsers)
              THEN Retry(w, o, [me EXCEPT !.pc = "transfer", !.browser = me.browser + 1])
              ELSE Surface(w, o, exc)

\* an exception leaves attempt_download: exc is the message of a DownloadError,
\* or "exception" for any other Exception (lines 460-503, 572-580, 590-602)
OnRaise(w, o, exc) ==
    LET me == workers[w]
    IN CASE me.mode = "primary" ->
              IF exc = "exception"
              THEN Exit(w, Failed(o), TRUE, TRUE)
              ELSE IF _is_format_unavailable(exc)
              THEN IF o.output_format \in AudioFormats \/ BuildRaises(Relaxed(o))
                   THEN Surface(w, o, exc)
                   ELSE Retry(w, Relaxed(o),
                              [pc |-> "transfer", mode |-> "fallback", browser |-> 0,
                               orig |-> Original(o), error_msg |-> exc])
              ELSE IF _is_http_403(exc)
              THEN IF BuildRaises(o)
                   THEN Surface(w, o, exc)
                   ELSE Retry(w, o,
                              [pc |-> "transfer", mode |-> "cookies", browser |-> 1,
                               orig |-> NoOrig, error_msg |-> exc])
              ELSE Surface(w, o, exc)
         [] me.mode = "fallback" ->
              Surface(w, Restored(o, me.orig), me.error_msg)
         [] me.mode = "cookies" ->
              IF me.browser < Len(Browsers)
              THEN Retry(w, o, [me EXCEPT !.pc = "transfer", !.browser = me.browser + 1])
              ELSE Surface(w, o, me.error_msg)

\* pause_event.wait() that gives the slot up while the gate is closed
progress_hook_wait_yielding(w) ==
    /\ workers[w].pc = "transfer"
    /\ IF Get(pause_events, w[1], TRUE)
       THEN Goto(w, "checkpoint") /\ UNCHANGED semaphore
       ELSE Goto(w, "blocked") /\ semaphore' = semaphore + 1
    /\ UNCHANGED <<tasks, detached, pause_events, cancel_flags, threads,
                   files, ffmpeg, window, state_file, next_id, pending_spawn,
                   history, notified>>

\* progress_hook, lines 672-674: pause_event.wait()
progress_hook_wait(w) ==
    /\ workers[w].pc = "transfer"
    /\ Goto(w, IF Get(pause_events, w[1], TRUE) THEN "checkpoint" ELSE "blocked")
    /\ UNCHANGED <<tasks, detached, pause_events, cancel_flags, threads, semaphore,
                   files, ffmpeg, window, state_file, next_id, pending_spawn,
                   history, notified>>

\* the payloads of the transfer checkpoint: d['status'] and the stage that
\* _determine_stage_from_info reads from d['info_dict']
ProgressEvents ==
    [status : {"downloading"},
     stage : {"downloading", "downloading_video", "downloading_audio"},
     downloaded_bytes : {0, 250, 500, 1000, 1500},
     total_bytes : {0, 1000}]
    \cup [status : {"finished"}, stage : {""}, downloaded_bytes : {0}, total_bytes : {0}]

\* progress_hook, lines 680-710: the task after the update for the payload d
progress_update(o, d) ==
    IF d.status = "downloading"
    THEN [o EXCEPT !.stage = d.stage,
                   !.output_path = TRUE,
                   !.downloaded_bytes = d.downloaded_bytes,
                   !.percent = _calculate_overall_percent(
                                   o, d.downloaded_bytes, d.total_bytes, d.stage)]
    ELSE IF _needs_merge(o) \/ _needs_extract(o)
    THEN [o EXCEPT !.stage = "processing",
                   !.percent = Max(@, Pct(95)),
                   !.output_path = TRUE]
    ELSE [o EXCEPT !.percent = Pct(100), !.output_path = TRUE]

\* progress_hook, lines 677-710; a callback that raises leaves the engine as
\* an Exception
progress_hook(w, d) ==
    /\ workers[w].pc \in {"checkpoint", "interrupted"}
    /\ LET t == w[1]
           o == Obj(t)
       IN IF Get(cancel_flags, t, FALSE)
          THEN OnRaise(w, o, DOWNLOAD_CANCELLED) /\ UNCHANGED files
          ELSE /\ IF CallbackRaises
                  THEN OnRaise(w, progress_update(o, d), "exception")
                  ELSE /\ Goto(w, "transfer")
                       /\ Assign(t, progress_update(o, d))
                       /\ Notify(t, progress_update(o, d))
                       /\ UNCHANGED <<semaphore, history>>
               /\ files' = IF d.status = "downloading"
                           THEN files \cup {<<"part", t>>}
                           ELSE (files \ {<<"part", t>>}) \cup {<<"out", t>>}
    /\ UNCHANGED <<pause_events, cancel_flags, threads, ffmpeg, window, state_file, next_id,
                   pending_spawn>>

PostprocessorEvents ==
    [status : {"started", "finished"}, postprocessor : {"ExtractAudio", "Merger", "MoveFiles"}]

\* postprocessor_hook, lines 742-761; a callback that raises leaves the engine
\* as an Exception
postprocessor_hook(w, d) ==
    /\ workers[w].pc \in {"transfer", "postproc"}
    /\ LET o == Obj(w[1])
           stage == IF d.postprocessor = "ExtractAudio" THEN "extracting_audio"
                    ELSE IF d.postprocessor = "Merger" THEN "merging"
                    ELSE "processing"
           updated == [o EXCEPT
              !.stage = IF d.status = "finished" /\ o.status # CANCELLED
                        THEN COMPLETED ELSE stage,
              !.percent = IF d.status = "finished" THEN Pct(100) ELSE Max(@, Pct(95))]
       IN IF CallbackRaises
          THEN OnRaise(w, updated, "exception")
          ELSE /\ Assign(w[1], updated)
               /\ Notify(w[1], updated)
               /\ Goto(w, "postproc")
               /\ UNCHANGED <<semaphore, history>>
    /\ UNCHANGED <<pause_events, cancel_flags, threads, files, ffmpeg, window, state_file,
                   next_id, pending_spawn>>

\* attempt_download returns: lines 446-450 and 505 (480-481 and 487-488 after
\* a retry)
engine_return(w) ==
    /\ workers[w].pc \in {"transfer", "postproc"}
    /\ IF Get(cancel_flags, w[1], FALSE)
       THEN IF workers[w].mode = "primary"
            THEN /\ Exit(w, [Obj(w[1]) EXCEPT !.status = CANCELLED], FALSE, TRUE)
                 /\ files' = files \ {<<"out", w[1]>>}
            ELSE /\ Exit(w, [Obj(w[1]) EXCEPT !.status = CANCELLED], TRUE, FALSE)
                 /\ UNCHANGED files
       ELSE /\ Goto(w, "completing")
            /\ UNCHANGED <<tasks, detached, semaphore, files, history, notified>>
    /\ UNCHANGED <<pause_events, cancel_flags, threads, ffmpeg, window, state_file, next_id,
                   pending_spawn>>

EngineErrors == {FORMAT_UNAVAILABLE, HTTP_403, ENGINE_ERROR, "exception"}

\* attempt_download raises
engine_raise(w, exc) ==
    /\ workers[w].pc \in {"transfer", "postproc"}
    /\ OnRaise(w, Obj(w[1]), exc)
    /\ UNCHANGED <<pause_events, cancel_flags, threads, files, ffmpeg, window, state_file,
                   next_id, pending_spawn>>

\* _extract_audio runs ffmpeg: config save_audio_on_complete defaults to True
ExtractsAudio(t, task) ==
    /\ task.output_path /\ <<"out", t>> \in files
    /\ task.has_video
    /\ ffmpeg

\* lines 452-458 and 505 (483-488 after a retry): mark the task completed; a
\* callback that raises at line 646 leaves _extract_audio as an Exception
mark_completed(w) ==
    /\ workers[w].pc = "completing"
    /\ LET t == w[1]
           o == [Obj(t) EXCEPT !.status = COMPLETED, !.stage = COMPLETED,
                               !.percent = Pct(100)]
           extracting == [o EXCEPT !.stage = "extracting_audio"]
       IN IF workers[w].mode # "primary"
          THEN Exit(w, o, TRUE, FALSE) /\ UNCHANGED files
          ELSE IF ExtractsAudio(t, o)
          THEN IF CallbackRaises
               THEN Exit(w, Failed(extracting), TRUE, TRUE) /\ UNCHANGED files
               ELSE /\ Assign(t, extracting)
                    /\ Notify(t, extracting)
                    /\ Goto(w, "extracting")
                    /\ UNCHANGED <<semaphore, files, history>>
          ELSE /\ Exit(w, o, TRUE, TRUE)
               /\ files' = files \ {<<"part", t>>}
    /\ UNCHANGED <<pause_events, cancel_flags, threads, ffmpeg, window, state_file, next_id,
                   pending_spawn>>

\* _extract_audio, lines 647-658, then _cleanup_temp_files, record_finish, the
\* notification of line 505 and the exit; a callback that raises at line 656
\* leaves _extract_audio as an Exception
extract_audio_done(w, ok) ==
    /\ workers[w].pc = "extracting"
    /\ LET t == w[1]
           o == Obj(t)
           extracted == [o EXCEPT !.audio_path = TRUE, !.stage = COMPLETED]
       IN IF ok
          THEN IF CallbackRaises
               THEN /\ Exit(w, Failed(extracted), TRUE, TRUE)
                    /\ files' = files \cup {<<"audio", t>>}
               ELSE /\ Exit(w, extracted, TRUE, TRUE)
                    /\ files' = (files \ {<<"part", t>>}) \cup {<<"audio", t>>}
          ELSE /\ Exit(w, o, TRUE, TRUE)
               /\ files' = files \ {<<"part", t>>}
    /\ UNCHANGED <<pause_events, cancel_flags, threads, ffmpeg, window, state_file, next_id,
                   pending_spawn>>

-----------------------------------------------------------------------------
(* Persistence: save_state writes the registry to the file at               *)
(* Config.tasks_path, load_state reads it back when the manager is built.   *)

\* data.get(key) is None: the key is absent from the entry, or null
NONE == -1
\* a value int() and float() reject, such as the string "abc"
UNPARSABLE == -2

\* The file: missing, or text json.load rejects, or a JSON value that is a list
\* of entries or something else.
NoFile == [exists |-> FALSE, parses |-> FALSE, is_list |-> FALSE, payload |-> <<>>]
Unparsable == [exists |-> TRUE, parses |-> FALSE, is_list |-> FALSE, payload |-> <<>>]
NotAList == [exists |-> TRUE, parses |-> TRUE, is_list |-> FALSE, payload |-> <<>>]
JsonList(payload) ==
    [exists |-> TRUE, parses |-> TRUE, is_list |-> TRUE, payload |-> payload]

\* DownloadTask.to_dict, lines 87-111: the entry of a task.  is_dict tells a
\* JSON object from any other JSON value; task_id is the id, 0 standing for
\* the empty string; downloaded_bytes and percent are the fields of `progress`.
to_dict(id, task) ==
    [ is_dict |-> TRUE,
      task_id |-> id,
      url |-> task.url,
      format_id |-> task.format_id,
      output_format |-> task.output_format,
      include_audio |-> task.include_audio,
      has_audio |-> task.has_audio,
      has_video |-> task.has_video,
      audio_path |-> task.audio_path,
      output_path |-> task.output_path,
      status |-> task.status,
      stage |-> task.stage,
      percent |-> task.percent,
      downloaded_bytes |-> task.downloaded_bytes,
      error_message |-> task.error_message ]

\* _serialize_task that writes the live status and stage
_serialize_task_live(id, task) == to_dict(id, task)

\* _serialize_task, lines 219-225
_serialize_task(id, task) ==
    IF task.status \in {DOWNLOADING, PENDING}
    THEN [to_dict(id, task) EXCEPT !.status = PAUSED, !.stage = "paused"]
    ELSE to_dict(id, task)

\* int(value or 0), float(value or 0): lines 243-247
Number(value) == IF value = NONE THEN 0 ELSE value

\* _restore_task that takes the stored status as it is
_restore_task_as_stored(data, fresh) ==
    IF ~data.is_dict
    THEN [raised |-> FALSE, task |-> FALSE, task_id |-> NONE, fields |-> data]
    ELSE IF UNPARSABLE \in {data.downloaded_bytes, data.percent}
    THEN [raised |-> TRUE, task |-> FALSE, task_id |-> NONE, fields |-> data]
    ELSE
    LET status == IF data.status \notin TaskStatus THEN PAUSED
                  ELSE data.status
    IN [ raised |-> FALSE,
         task |-> TRUE,
         task_id |-> IF data.task_id > 0 THEN data.task_id ELSE fresh,
         fields |->
           [ url |-> data.url,
             format_id |-> data.format_id,
             output_format |-> data.output_format,
             include_audio |-> data.include_audio,
             has_audio |-> data.has_audio,
             has_video |-> data.has_video,
             audio_path |-> data.audio_path,
             output_path |-> data.output_path,
             status |-> status,
             stage |-> data.stage,
             percent |-> Number(data.percent),
             downloaded_bytes |-> Number(data.downloaded_bytes),
             error_message |-> data.error_message ] ]

\* _restore_task, lines 227-289.  `raised`: int() or float() raised ValueError;
\* `task`: FALSE for the None of line 230; fresh is the id uuid4 would give.
_restore_task(data, fresh) ==
    IF ~data.is_dict
    THEN [raised |-> FALSE, task |-> FALSE, task_id |-> NONE, fields |-> data]
    ELSE IF UNPARSABLE \in {data.downloaded_bytes, data.percent}
    THEN [raised |-> TRUE, task |-> FALSE, task_id |-> NONE, fields |-> data]
    ELSE
    LET status == IF data.status \notin TaskStatus THEN PAUSED
                  ELSE IF data.status \in {DOWNLOADING, PENDING} THEN PAUSED
                  ELSE data.status
    IN [ raised |-> FALSE,
         task |-> TRUE,
         task_id |-> IF data.task_id > 0 THEN data.task_id ELSE fresh,
         fields |->
           [ url |-> data.url,
             format_id |-> data.format_id,
             output_format |-> data.output_format,
             include_audio |-> data.include_audio,
             has_audio |-> data.has_audio,
             has_video |-> data.has_video,
             audio_path |-> data.audio_path,
             output_path |-> data.output_path,
             status |-> status,
             stage |-> data.stage,
             percent |-> Number(data.percent),
             downloaded_bytes |-> Number(data.downloaded_bytes),
             error_message |-> data.error_message ] ]

\* dict.values() of the registry, lines 295-296
RECURSIVE Values(_, _)
Values(registry, ids) ==
    IF ids = {} THEN <<>>
    ELSE LET id == CHOOSE x \in ids : \A y \in ids : x <= y
         IN <<_serialize_task(id, registry[id])>> \o Values(registry, ids \ {id})

\* save_state, lines 291-302: the file written; the registry is only read
save_state(m) ==
    [m |-> m, file |-> JsonList(Values(m.tasks, DOMAIN m.tasks))]

\* DownloadManager(max_concurrent), lines 124-128
NewManager ==
    [ tasks |-> EmptyDict, detached |-> EmptyDict, pause_events |-> EmptyDict,
      cancel_flags |-> EmptyDict, threads |-> EmptyDict, workers |-> EmptyDict,
      files |-> files, history |-> history, notified |-> EmptyDict ]

\* the loop of load_state, lines 319-325, from entry i on; drawn counts the
\* ids uuid4 has given
RECURSIVE LoadEntries(_, _, _, _)
LoadEntries(m, payload, i, drawn) ==
    IF i > Len(payload) THEN [raised |-> FALSE, m |-> m, drawn |-> drawn]
    ELSE LET r == _restore_task(payload[i], drawn + 1)
             used == IF r.task /\ r.task_id = drawn + 1 THEN drawn + 1 ELSE drawn
         IN IF r.raised THEN [raised |-> TRUE, m |-> m, drawn |-> drawn]
            ELSE IF ~r.task THEN LoadEntries(m, payload, i + 1, used)
            ELSE IF r.fields.url = "" THEN LoadEntries(m, payload, i + 1, used)
            ELSE LoadEntries(_register_task(m, r.task_id, r.fields),
                             payload, i + 1, used)

\* load_state, lines 304-325
load_state(m, file, drawn) ==
    IF ~file.exists THEN [raised |-> FALSE, m |-> m, drawn |-> drawn]
    ELSE IF ~file.parses THEN [raised |-> FALSE, m |-> m, drawn |-> drawn]
    ELSE IF ~file.is_list THEN [raised |-> FALSE, m |-> m, drawn |-> drawn]
    ELSE LoadEntries(m, file.payload, 1, drawn)

\* save_state called by the embedding application
SaveState ==
    /\ state_file' = save_state(Manager).file
    /\ Apply(save_state(Manager))
    /\ UNCHANGED <<semaphore, ffmpeg, window, next_id, pending_spawn>>

\* The process ends and a new one calls get_download_manager, lines 939-947:
\* a new manager, then load_state; the files stay, the threads are gone.  When
\* load_state raises, the instance is already assigned and holds what was
\* registered before.  drawn: no id uuid4 gives from now on is among 1..drawn.
Restart(drawn) ==
    LET r == load_state(NewManager, state_file, drawn)
    IN /\ Apply(r)
       /\ semaphore' = MaxConcurrent
       /\ next_id' = r.drawn
       /\ pending_spawn' = EmptyDict
       /\ UNCHANGED <<ffmpeg, window, state_file>>

-----------------------------------------------------------------------------
(* Specifications *)

InitState(max_concurrent, ffmpeg_installed, store, window_open) ==
    /\ tasks = EmptyDict
    /\ detached = EmptyDict
    /\ pause_events = EmptyDict
    /\ cancel_flags = EmptyDict
    /\ threads = EmptyDict
    /\ workers = EmptyDict
    /\ semaphore = max_concurrent
    /\ files = {}
    /\ ffmpeg \in ffmpeg_installed
    /\ state_file = NoFile
    /\ next_id = 0
    /\ pending_spawn = EmptyDict
    /\ history = store
    /\ notified = EmptyDict
    /\ window \in window_open

InitWith(max_concurrent, ffmpeg_installed) ==
    InitState(max_concurrent, ffmpeg_installed, Unfollowed, {TRUE})

\* the ids a caller may pass: those create_task has returned or will, and 0,
\* an id create_task never returns
CallIds(limit) == 0..limit

\* the steps of the worker threads and of the engine they call
Work(G, X, E) ==
    \/ \E w \in DOMAIN workers : acquire(w)
    \/ \E w \in DOMAIN workers : check_cancelled(w)
    \/ \E w \in DOMAIN workers : mark_downloading(w)
    \/ \E w \in DOMAIN workers : progress_hook_wait(w)
    \/ \E w \in DOMAIN workers, d \in G : progress_hook(w, d)
    \/ \E w \in DOMAIN workers, d \in X : postprocessor_hook(w, d)
    \/ \E w \in DOMAIN workers : engine_return(w)
    \/ \E w \in DOMAIN workers, exc \in E : engine_raise(w, exc)
    \/ \E w \in DOMAIN workers : mark_completed(w)

\* the audio sidecar pass: ffmpeg ends, with or without an error
Sidecar == \E w \in DOMAIN workers, ok \in BOOLEAN : extract_audio_done(w, ok)

\* the calls of the API, one caller at a time
Calls(P, limit) ==
    \/ \E p \in P : next_id < limit /\ CreateTask(p)
    \/ \E t \in CallIds(limit) : PauseTask(t)
    \/ \E t \in CallIds(limit) : ResumeTask(t)
    \/ \E t \in CallIds(limit) : CancelTask(t)
    \/ \E t \in CallIds(limit) : RemoveTask(t)

\* The default specification: a video and an audio output, ffmpeg installed or
\* not, an engine that transfers one stream of unknown size, reports the merge
\* and fails without a retry.
PlainProfiles ==
    { [url |-> URL, output_format |-> "mp4", has_audio |-> TRUE],
      [url |-> URL, output_format |-> "mp3", has_audio |-> TRUE] }
PlainProgress ==
    {d \in ProgressEvents : d.stage \in {"downloading", ""} /\ d.total_bytes = 0
                              /\ d.downloaded_bytes = 0}
PlainErrors == {ENGINE_ERROR, "exception"}
PlainPostprocessor == {d \in PostprocessorEvents : d.postprocessor = "Merger"}

Init == InitWith(MaxConcurrent, BOOLEAN)

Next ==
    \/ Calls(PlainProfiles, MaxTasks)
    \/ Work(PlainProgress, PlainPostprocessor, PlainErrors)
    \/ Sidecar

Spec == Init /\ [][Next]_vars

\* The pool: one task more than the semaphore has slots, a stream that needs no
\* merge, ffmpeg installed, an engine that reports one event of each kind and
\* never the end of a file (so that no sidecar pass follows).
PoolTasks == MaxConcurrent + 1
PoolProfiles == {[url |-> URL, output_format |-> "mp4", has_audio |-> TRUE]}
PoolProgress ==
    {d \in ProgressEvents : d.stage = "downloading" /\ d.total_bytes = 0
                              /\ d.downloaded_bytes = 0}
PoolPostprocessor == {d \in PostprocessorEvents :
                        d.status = "started" /\ d.postprocessor = "Merger"}
PoolErrors == {ENGINE_ERROR}

InitPool == InitWith(MaxConcurrent, {TRUE})

NextPool ==
    \/ Calls(PoolProfiles, PoolTasks)
    \/ Work(PoolProgress, PoolPostprocessor, PoolErrors)

SpecPool == InitPool /\ [][NextPool]_vars

\* The queue: the pool's tasks created and left alone (no pause_task,
\* resume_task, cancel_task or remove_task), with the default specification's
\* profiles and engine.
NextQueue ==
    \/ \E p \in PlainProfiles : next_id < PoolTasks /\ CreateTask(p)
    \/ Work(PlainProgress, PoolPostprocessor, PlainErrors)
    \/ Sidecar

SpecQueue == Init /\ [][NextQueue]_vars

\* Concurrent callers: a resume_task call is two steps, and other calls run
\* between its test of thread.is_alive() and its thread.start().
NextConcurrent ==
    \/ \E p \in PlainProfiles : next_id < MaxTasks /\ CreateTask(p)
    \/ \E t \in CallIds(MaxTasks) : PauseTask(t)
    \/ \E t \in CallIds(MaxTasks) : ResumeTaskTest(t)
    \/ \E t \in CallIds(MaxTasks) : ResumeTaskStart(t)
    \/ \E t \in CallIds(MaxTasks) : CancelTask(t)
    \/ \E t \in CallIds(MaxTasks) : RemoveTask(t)
    \/ Work(PoolProgress, PoolPostprocessor, PoolErrors)

SpecConcurrent == Init /\ [][NextConcurrent]_vars

\* The progress model: one run of each task, every profile, an engine that
\* reports byte counts.  The engine transfers one stream, or the video stream
\* and then the audio stream when the selection has no audio; its byte counter
\* does not fall within a stream, and no payload follows the `finished` payload
\* of a single stream (the output file is then on disk).
TransferEvents(t, o) ==
    {d \in ProgressEvents :
        LET two_streams == ~o.has_audio /\ o.output_format \notin AudioFormats
            finished == <<"out", t>> \in files
        IN IF d.status = "finished"
           THEN two_streams \/ ~finished
           ELSE /\ d.stage = o.stage => d.downloaded_bytes >= o.downloaded_bytes
                /\ IF two_streams
                   THEN \/ d.stage = "downloading_audio"
                        \/ /\ d.stage = "downloading_video"
                           /\ ~finished
                           /\ o.stage # "downloading_audio"
                   ELSE d.stage = "downloading" /\ ~finished}

NextPercent ==
    \/ \E p \in Profiles : next_id < MaxTasks /\ CreateTask(p)
    \/ \E w \in DOMAIN workers : acquire(w)
    \/ \E w \in DOMAIN workers : check_cancelled(w)
    \/ \E w \in DOMAIN workers : mark_downloading(w)
    \/ \E w \in DOMAIN workers : progress_hook_wait(w)
    \/ \E w \in DOMAIN workers : \E d \in TransferEvents(w[1], Obj(w[1])) : progress_hook(w, d)
    \/ \E w \in DOMAIN workers, d \in PostprocessorEvents : postprocessor_hook(w, d)
    \/ \E w \in DOMAIN workers : engine_return(w)
    \/ \E w \in DOMAIN workers : engine_raise(w, ENGINE_ERROR)
    \/ \E w \in DOMAIN workers : mark_completed(w)
    \/ Sidecar

SpecPercent == Init /\ [][NextPercent]_vars

\* The retry model: every profile, ffmpeg installed or not, an engine that
\* fails in every way _download_worker distinguishes, a caller that cancels.
\* No pause or resume: each task has one run.
RetryProgress == {d \in PlainProgress : d.stage = "downloading"}

NextRetry ==
    \/ \E p \in Profiles : next_id < MaxTasks /\ CreateTask(p)
    \/ \E t \in 1..MaxTasks : CancelTask(t)
    \/ \E w \in DOMAIN workers : acquire(w)
    \/ \E w \in DOMAIN workers : check_cancelled(w)
    \/ \E w \in DOMAIN workers : mark_downloading(w)
    \/ \E w \in DOMAIN workers : progress_hook_wait(w)
    \/ \E w \in DOMAIN workers, d \in RetryProgress : progress_hook(w, d)
    \/ \E w \in DOMAIN workers : engine_return(w)
    \/ \E w \in DOMAIN workers, exc \in EngineErrors : engine_raise(w, exc)
    \/ \E w \in DOMAIN workers : mark_completed(w)

SpecRetry == Init /\ [][NextRetry]_vars

\* The exit model: the paths by which a worker leaves _download_worker.  A
\* video output with ffmpeg installed, the same engine, callers that cancel and
\* remove.
NextExit ==
    \/ \E p \in PoolProfiles : next_id < MaxTasks /\ CreateTask(p)
    \/ \E t \in 1..MaxTasks : CancelTask(t)
    \/ \E t \in 1..MaxTasks : RemoveTask(t)
    \/ \E w \in DOMAIN workers : acquire(w)
    \/ \E w \in DOMAIN workers : check_cancelled(w)
    \/ \E w \in DOMAIN workers : mark_downloading(w)
    \/ \E w \in DOMAIN workers : progress_hook_wait(w)
    \/ \E w \in DOMAIN workers, d \in RetryProgress : progress_hook(w, d)
    \/ \E w \in DOMAIN workers : engine_return(w)
    \/ \E w \in DOMAIN workers, exc \in EngineErrors : engine_raise(w, exc)
    \/ \E w \in DOMAIN workers : mark_completed(w)

SpecExit == InitPool /\ [][NextExit]_vars

\* The persistence model: tasks with and without a locator, an engine that
\* transfers a stream of unknown size and ends or fails (it fails when there is
\* no locator), a caller that pauses, an application that saves the registry
\* and restarts.
PersistProfiles ==
    {[url |-> u, output_format |-> "mp4", has_audio |-> TRUE] : u \in {"", URL}}

HasLocator(w) == Obj(w[1]).url # ""

NextPersist ==
    \/ \E p \in PersistProfiles : next_id < MaxTasks /\ CreateTask(p)
    \/ \E t \in 1..MaxTasks : PauseTask(t)
    \/ \E w \in DOMAIN workers : acquire(w)
    \/ \E w \in DOMAIN workers : check_cancelled(w)
    \/ \E w \in DOMAIN workers : mark_downloading(w)
    \/ \E w \in DOMAIN workers : HasLocator(w) /\ progress_hook_wait(w)
    \/ \E w \in DOMAIN workers, d \in RetryProgress : progress_hook(w, d)
    \/ \E w \in DOMAIN workers : HasLocator(w) /\ engine_return(w)
    \/ \E w \in DOMAIN workers : engine_raise(w, ENGINE_ERROR)
    \/ \E w \in DOMAIN workers : mark_completed(w)
    \/ SaveState
    \/ Restart(next_id)

SpecPersist == Init /\ [][NextPersist]_vars

\* an entry save_state could have written for a task of id `id`
Stored(id, status) ==
    to_dict(id, [DownloadTask([url |-> URL, output_format |-> "mp4",
                               has_audio |-> TRUE])
                    EXCEPT !.status = status, !.stage = status])

\* the sequences of at most n members of S
RECURSIVE Payloads(_, _)
Payloads(S, n) ==
    IF n = 0 THEN {<<>>}
    ELSE Payloads(S, n - 1)
         \cup {Append(p, e) : p \in {q \in Payloads(S, n - 1) : Len(q) = n - 1},
                              e \in S}

\* get_download_manager in a new process, lines 939-947, over the file `file`;
\* no id uuid4 gives is among 1..drawn
InitFrom(file, drawn) ==
    /\ state_file = file
    /\ files = {}
    /\ ffmpeg = TRUE
    /\ detached = EmptyDict
    /\ pending_spawn = EmptyDict
    /\ semaphore = MaxConcurrent
    /\ history = Unfollowed
    /\ notified = EmptyDict
    /\ window = TRUE
    /\ LET r == load_state([NewManager EXCEPT !.files = {}], file, drawn)
       IN /\ tasks = r.m.tasks
          /\ pause_events = r.m.pause_events
          /\ cancel_flags = r.m.cancel_flags
          /\ threads = r.m.threads
          /\ workers = r.m.workers
          /\ next_id = r.drawn

\* The restore model: a manager built over a file that save_state wrote, or
\* that a crash left with a downloading entry; callers that pause, resume,
\* cancel and remove; an engine that ends or fails.
SavedEntries ==
    {Stored(id, status) : id \in 1..MaxTasks,
                          status \in {PAUSED, DOWNLOADING, COMPLETED}}

InitRestore ==
    \E p \in Payloads(SavedEntries, MaxTasks) : InitFrom(JsonList(p), MaxTasks)

NextRestore ==
    \/ \E t \in 1..MaxTasks : PauseTask(t)
    \/ \E t \in 1..MaxTasks : ResumeTask(t)
    \/ \E t \in 1..MaxTasks : CancelTask(t)
    \/ \E t \in 1..MaxTasks : RemoveTask(t)
    \/ \E w \in DOMAIN workers : acquire(w)
    \/ \E w \in DOMAIN workers : check_cancelled(w)
    \/ \E w \in DOMAIN workers : mark_downloading(w)
    \/ \E w \in DOMAIN workers : progress_hook_wait(w)
    \/ \E w \in DOMAIN workers, d \in RetryProgress : progress_hook(w, d)
    \/ \E w \in DOMAIN workers : engine_return(w)
    \/ \E w \in DOMAIN workers : engine_raise(w, ENGINE_ERROR)
    \/ \E w \in DOMAIN workers : mark_completed(w)

SpecRestore == InitRestore /\ [][NextRestore]_vars

\* The load model: a manager built over any file of up to MaxEntries entries,
\* sound and defective ones; a caller that cancels; restarts.
MaxEntries == MaxTasks + 1

StoredEntries ==
    { Stored(1, PAUSED), Stored(MaxEntries, DOWNLOADING),
      Stored(MaxEntries, COMPLETED), Stored(1, "unknown"),
      [Stored(1, PAUSED) EXCEPT !.url = ""],
      [Stored(1, PAUSED) EXCEPT !.is_dict = FALSE],
      [Stored(1, PAUSED) EXCEPT !.downloaded_bytes = UNPARSABLE],
      [Stored(1, PAUSED) EXCEPT !.percent = NONE],
      [Stored(1, PAUSED) EXCEPT !.task_id = NONE],
      [Stored(1, PAUSED) EXCEPT !.task_id = 0] }

StateFiles ==
    {NoFile, Unparsable, NotAList}
    \cup {JsonList(p) : p \in Payloads(StoredEntries, MaxEntries)}

NextLoad ==
    \/ \E t \in 1..(2 * MaxEntries) : CancelTask(t)
    \/ Restart(MaxEntries)

SpecLoad == (\E file \in StateFiles : InitFrom(file, MaxEntries)) /\ [][NextLoad]_vars

\* The observed model: the history store is followed.  A video and an audio
\* output with a locator, ffmpeg installed, an engine that transfers a stream
\* of unknown size and ends or fails, the audio sidecar pass, callers that
\* pause, resume and cancel.
InitObserved == InitState(MaxConcurrent, {TRUE}, EmptyStore, {TRUE})

NextObserved ==
    \/ \E p \in PlainProfiles : next_id < MaxTasks /\ CreateTask(p)
    \/ \E t \in 1..MaxTasks : PauseTask(t)
    \/ \E t \in 1..MaxTasks : ResumeTask(t)
    \/ \E t \in 1..MaxTasks : CancelTask(t)
    \/ \E w \in DOMAIN workers : acquire(w)
    \/ \E w \in DOMAIN workers : check_cancelled(w)
    \/ \E w \in DOMAIN workers : mark_downloading(w)
    \/ \E w \in DOMAIN workers : progress_hook_wait(w)
    \/ \E w \in DOMAIN workers, d \in PlainProgress : progress_hook(w, d)
    \/ \E w \in DOMAIN workers : engine_return(w)
    \/ \E w \in DOMAIN workers : engine_raise(w, ENGINE_ERROR)
    \/ \E w \in DOMAIN workers : mark_completed(w)
    \/ Sidecar

SpecObserved == InitObserved /\ [][NextObserved]_vars

\* The user closes the window: evaluate_js raises from now on
CloseWindow ==
    /\ window
    /\ window' = FALSE
    /\ UNCHANGED <<tasks, detached, pause_events, cancel_flags, threads, workers,
                   semaphore, files, ffmpeg, state_file, next_id, pending_spawn,
                   history, notified>>

\* The listener model: the window is open or closed when the tasks are
\* created, and may close at any time.  A video output, ffmpeg installed, an
\* engine that transfers, reports the merge and never fails, the audio sidecar
\* pass, callers that pause, resume and cancel.
NextListener ==
    \/ \E p \in PoolProfiles : next_id < MaxTasks /\ CreateTask(p)
    \/ \E t \in 1..MaxTasks : PauseTask(t)
    \/ \E t \in 1..MaxTasks : ResumeTask(t)
    \/ \E t \in 1..MaxTasks : CancelTask(t)
    \/ \E w \in DOMAIN workers : acquire(w)
    \/ \E w \in DOMAIN workers : check_cancelled(w)
    \/ \E w \in DOMAIN workers : mark_downloading(w)
    \/ \E w \in DOMAIN workers : progress_hook_wait(w)
    \/ \E w \in DOMAIN workers, d \in PlainProgress : progress_hook(w, d)
    \/ \E w \in DOMAIN workers, d \in PlainPostprocessor : postprocessor_hook(w, d)
    \/ \E w \in DOMAIN workers : engine_return(w)
    \/ \E w \in DOMAIN workers : mark_completed(w)
    \/ Sidecar
    \/ CloseWindow

SpecListener == InitState(MaxConcurrent, {TRUE}, Unfollowed, BOOLEAN) /\ [][NextListener]_vars

\* The clearing model: the pool's tasks, an engine that transfers and ends or
\* fails, callers that cancel and clear the completed tasks.
NextClear ==
    \/ \E p \in PoolProfiles : next_id < PoolTasks /\ CreateTask(p)
    \/ \E t \in 1..PoolTasks : CancelTask(t)
    \/ ClearCompleted
    \/ \E w \in DOMAIN workers : acquire(w)
    \/ \E w \in DOMAIN workers : check_cancelled(w)
    \/ \E w \in DOMAIN workers : mark_downloading(w)
    \/ \E w \in DOMAIN workers : progress_hook_wait(w)
    \/ \E w \in DOMAIN workers, d \in RetryProgress : progress_hook(w, d)
    \/ \E w \in DOMAIN workers : engine_return(w)
    \/ \E w \in DOMAIN workers : engine_raise(w, ENGINE_ERROR)
    \/ \E w \in DOMAIN workers : mark_completed(w)

SpecClear == InitPool /\ [][NextClear]_vars

\* The identifier model: uuid4 is a random source, so the eight digits that
\* create_task keeps may be any of the space, those of a registered task
\* included. The space is small enough for both cases to happen.
NextIds ==
    \/ \E id \in 1..PoolTasks, p \in PoolProfiles : next_id < PoolTasks /\ CreateTaskAs(id, p)
    \/ \E t \in 1..PoolTasks : CancelTask(t)
    \/ \E w \in DOMAIN workers : acquire(w)
    \/ \E w \in DOMAIN workers : check_cancelled(w)
    \/ \E w \in DOMAIN workers : mark_downloading(w)
    \/ \E w \in DOMAIN workers : progress_hook_wait(w)
    \/ \E w \in DOMAIN workers, d \in RetryProgress : progress_hook(w, d)
    \/ \E w \in DOMAIN workers : engine_return(w)
    \/ \E w \in DOMAIN workers : mark_completed(w)

SpecIds == InitPool /\ [][NextIds]_vars

\* The default specification under fair scheduling: a thread that can take a
\* step eventually takes one, and an engine invocation that is not held at a
\* checkpoint eventually returns or raises. The callers are not obliged to call.
SpecFair ==
    /\ Init /\ [][Next]_vars
    /\ WF_vars(Work(PlainProgress, PlainPostprocessor, PlainErrors) \/ Sidecar)
    /\ SF_vars(\E w \in DOMAIN workers :
                  engine_return(w) \/ \E exc \in PlainErrors : engine_raise(w, exc))

\* The observed fallback: the observed model's ledger and callback, one video
\* output, and an engine whose first attempt may fail for want of the format,
\* so that a run may complete in its first attempt or in the relaxed one.
NextFallback ==
    \/ \E p \in PoolProfiles : next_id < MaxTasks /\ CreateTask(p)
    \/ \E t \in 1..MaxTasks : CancelTask(t)
    \/ \E w \in DOMAIN workers : acquire(w)
    \/ \E w \in DOMAIN workers : check_cancelled(w)
    \/ \E w \in DOMAIN workers : mark_downloading(w)
    \/ \E w \in DOMAIN workers : progress_hook_wait(w)
    \/ \E w \in DOMAIN workers, d \in PlainProgress : progress_hook(w, d)
    \/ \E w \in DOMAIN workers : engine_return(w)
    \/ \E w \in DOMAIN workers, exc \in {FORMAT_UNAVAILABLE, ENGINE_ERROR} : engine_raise(w, exc)
    \/ \E w \in DOMAIN workers : mark_completed(w)
    \/ Sidecar

SpecFallback == InitObserved /\ [][NextFallback]_vars

\* The observed model with remove_task: a task may leave the registry while
\* its worker runs.
NextDetached ==
    \/ NextObserved
    \/ \E t \in 1..MaxTasks : RemoveTask(t)

SpecDetached == InitObserved /\ [][NextDetached]_vars

\* The gate: one task more than there are slots, an engine that transfers and
\* ends, callers that pause, resume and cancel.
NextGate ==
    \/ \E p \in PoolProfiles : next_id < PoolTasks /\ CreateTask(p)
    \/ \E t \in 1..PoolTasks : PauseTask(t)
    \/ \E t \in 1..PoolTasks : ResumeTask(t)
    \/ \E t \in 1..PoolTasks : CancelTask(t)
    \/ \E w \in DOMAIN workers : acquire(w)
    \/ \E w \in DOMAIN workers : check_cancelled(w)
    \/ \E w \in DOMAIN workers : mark_downloading(w)
    \/ \E w \in DOMAIN workers : progress_hook_wait(w)
    \/ \E w \in DOMAIN workers, d \in RetryProgress : progress_hook(w, d)
    \/ \E w \in DOMAIN workers : engine_return(w)
    \/ \E w \in DOMAIN workers : mark_completed(w)

SpecGate == InitPool /\ [][NextGate]_vars

-----------------------------------------------------------------------------
(* Properties *)

\* the workers between semaphore.acquire() and semaphore.release()
SlotHolders == {w \in DOMAIN workers : workers[w].pc # "queued"}

\* the statuses remove_task accepts
Terminal == {COMPLETED, CANCELLED, FAILED}

\* C1: in every reachable state the number of workers that hold a concurrency
\* slot (that are past semaphore.acquire() and have not exited) is at most the
\* configured maximum.
C1_SlotsBounded == Cardinality(SlotHolders) <= MaxConcurrent

\* every slot is held while another worker waits for one
C1_Witness ==
    /\ Cardinality(SlotHolders) = MaxConcurrent
    /\ \E w \in DOMAIN workers : workers[w].pc = "queued"
    /\ \E w \in DOMAIN workers : workers[w].pc = "transfer"

\* C2: with more tasks created than there are slots, and no pause, resume or
\* cancel issued, at most MaxConcurrent tasks have status downloading in any
\* reachable state, and a pending task becomes downloading only while fewer
\* than MaxConcurrent other workers hold a slot.
C2_Claim ==
    /\ [](Cardinality({t \in DOMAIN tasks : tasks[t].status = DOWNLOADING})
            <= MaxConcurrent)
    /\ [][\A t \in DOMAIN tasks :
            (tasks[t].status = PENDING /\ tasks'[t].status = DOWNLOADING)
            => Cardinality(SlotHolders \ LiveOf(t)) < MaxConcurrent]_vars

\* C3: cancel_task returns True exactly for a registered task that is pending,
\* downloading, paused or failed; it then leaves the cancellation flag set, the
\* pause event set and status and stage cancelled, with every worker still
\* alive; for any other id it returns False and changes nothing.
C3_CancelContract ==
    \A t \in CallIds(MaxTasks) :
        LET r == cancel_task(t)
        IN /\ r.ret = (t \in DOMAIN tasks
                        /\ tasks[t].status \in {PENDING, DOWNLOADING, PAUSED, FAILED})
           /\ r.ret => /\ r.m.cancel_flags[t]
                       /\ r.m.pause_events[t]
                       /\ r.m.tasks[t].status = CANCELLED
                       /\ r.m.tasks[t].stage = CANCELLED
                       /\ DOMAIN r.m.workers = DOMAIN workers
                       /\ \A w \in LiveOf(t) : r.m.workers[w].pc # "blocked"
           /\ ~r.ret => r.m = Manager

\* cancel_task has returned True for a paused task whose worker waited at the gate
C3_Witness ==
    \E w \in DOMAIN workers :
        /\ workers[w].pc = "interrupted"
        /\ w[1] \in DOMAIN tasks
        /\ tasks[w[1]].status = CANCELLED
        /\ cancel_flags[w[1]]
        /\ pause_events[w[1]]

\* C4: pause_task returns True exactly for a registered task whose status is
\* downloading; it then leaves the pause event cleared and status and stage
\* paused; for any other id it returns False and changes nothing.
C4_PauseContract ==
    \A t \in CallIds(MaxTasks) :
        LET r == pause_task(t)
        IN /\ r.ret = (t \in DOMAIN tasks /\ tasks[t].status = DOWNLOADING)
           /\ r.ret => /\ ~r.m.pause_events[t]
                       /\ r.m.tasks[t].status = PAUSED
                       /\ r.m.tasks[t].stage = PAUSED
                       /\ r.m.cancel_flags = cancel_flags
                       /\ r.m.workers = workers
           /\ ~r.ret => r.m = Manager

\* pause_task has returned True and the worker waits at the gate
C4_Witness ==
    \E w \in DOMAIN workers :
        /\ workers[w].pc = "blocked"
        /\ w[1] \in DOMAIN tasks
        /\ tasks[w[1]].status = PAUSED
        /\ tasks[w[1]].stage = PAUSED
        /\ ~pause_events[w[1]]

\* C5: resume_task returns True exactly for a registered task whose status is
\* paused; it then leaves the pause event set, error_message empty, the
\* cancellation flag False, status and stage downloading, and has started a new
\* worker if and only if the task had no live worker; for any other id it
\* returns False, changes nothing and starts no worker.
C5_ResumeContract ==
    \A t \in CallIds(MaxTasks) :
        LET r == resume_task(t)
        IN /\ r.ret = (t \in DOMAIN tasks /\ tasks[t].status = PAUSED)
           /\ r.ret => /\ r.m.pause_events[t]
                       /\ r.m.tasks[t].error_message = ""
                       /\ ~r.m.cancel_flags[t]
                       /\ r.m.tasks[t].status = DOWNLOADING
                       /\ r.m.tasks[t].stage = DOWNLOADING
                       /\ DOMAIN workers \subseteq DOMAIN r.m.workers
                       /\ (LiveOf(t) = {})
                            = (\E w \in DOMAIN r.m.workers \ DOMAIN workers :
                                    w[1] = t /\ r.m.workers[w].pc = "queued")
                       /\ \A w \in DOMAIN r.m.workers \ DOMAIN workers : w[1] = t
           /\ ~r.ret => r.m = Manager

\* resume_task has started a new worker for a task that had been paused after
\* its worker died
C5_Witness ==
    \E w \in DOMAIN workers :
        /\ workers[w].pc = "queued"
        /\ w[1] \in DOMAIN tasks
        /\ tasks[w[1]].status = DOWNLOADING
        /\ pause_events[w[1]]

\* C6: remove_task returns True exactly for a registered task whose status is
\* completed, failed or cancelled; it then has deleted the output and sidecar
\* files and the task's entries of the registry, the pause events, the
\* cancellation flags and the threads; for any other id it returns False and
\* changes nothing.
C6_RemoveContract ==
    \A t \in CallIds(MaxTasks) :
        LET r == remove_task(t)
        IN /\ r.ret = (t \in DOMAIN tasks /\ tasks[t].status \in Terminal)
           /\ r.ret => /\ <<"out", t>> \notin r.m.files
                       /\ <<"audio", t>> \notin r.m.files
                       /\ r.m.files \subseteq files
                       /\ \A f \in files \ r.m.files : f[2] = t
                       /\ t \notin DOMAIN r.m.tasks
                       /\ t \notin DOMAIN r.m.pause_events
                       /\ t \notin DOMAIN r.m.cancel_flags
                       /\ t \notin DOMAIN r.m.threads
                       /\ \A u \in DOMAIN tasks \ {t} :
                            /\ r.m.tasks[u] = tasks[u]
                            /\ r.m.pause_events[u] = pause_events[u]
                            /\ r.m.cancel_flags[u] = cancel_flags[u]
           /\ ~r.ret => r.m = Manager

\* remove_task succeeds on a completed task whose output and sidecar are on disk
C6_Witness ==
    \E t \in DOMAIN tasks :
        /\ remove_task(t).ret
        /\ tasks[t].status = COMPLETED
        /\ <<"out", t>> \in files
        /\ <<"audio", t>> \in files

\* C7: a worker that waited at the pause gate of a paused task and was woken
\* by a successful cancel_task raises the interruption at that checkpoint: its
\* next step makes no progress update, ends the worker, releases its slot and
\* leaves the task cancelled.
C7_Claim ==
    [][\A w \in DOMAIN workers :
        (workers[w].pc = "interrupted"
            /\ (w \notin DOMAIN workers' \/ workers'[w] # workers[w]))
        => /\ w \notin DOMAIN workers'
           /\ semaphore' = semaphore + 1
           /\ files' = files
           /\ w[1] \in DOMAIN tasks' =>
                /\ tasks'[w[1]].status = CANCELLED
                /\ tasks'[w[1]].stage = CANCELLED]_vars

\* C8: at any time at most one live worker is bound to a given task id.
C8_Claim == \A t \in {w[1] : w \in DOMAIN workers} : Cardinality(LiveOf(t)) <= 1

\* C9: in every reachable state a stage of merging, extracting_audio or
\* processing implies status downloading, and a stage that is a terminal name
\* implies the status of that name.
C9_Claim ==
    \A t \in DOMAIN tasks :
        /\ tasks[t].stage \in {"merging", "extracting_audio", "processing"}
            => tasks[t].status = DOWNLOADING
        /\ tasks[t].stage \in Terminal => tasks[t].status = tasks[t].stage

\* C10: once a task's status is completed, failed or cancelled, no later step
\* gives it a different status while it is registered.
C10_Claim ==
    [][\A t \in DOMAIN tasks :
        (tasks[t].status \in Terminal /\ t \in DOMAIN tasks')
        => tasks'[t].status = tasks[t].status]_vars

\* C11: within one run of a task (SpecPercent has no resume_task, so every
\* task has one run) no step lowers the task's percent.
C11_Claim ==
    [][\A t \in DOMAIN tasks :
        t \in DOMAIN tasks' => tasks'[t].percent >= tasks[t].percent]_vars

\* the transfer fraction f = clamp(100 * downloaded / total, 0, 100)
Fraction(downloaded, total) == Min(Max((downloaded * Pct(100)) \div total, 0), Pct(100))

\* C12 as stated: for total > 0, _calculate_overall_percent is f when neither
\* merge nor extraction is required, 0.9 f for an audio-extraction output in a
\* downloading stage, and, when a merge is required, 0.45 f in stage
\* downloading_video and 45 + 0.45 f in stage downloading_audio.
C12_Claim ==
    \A t \in DOMAIN tasks :
    \A downloaded \in {0, 250, 500, 1000, 1500}, total \in {4, 1000} :
    \A stage \in DownloadingStages :
        LET task == tasks[t]
            f == Fraction(downloaded, total)
            r == _calculate_overall_percent(task, downloaded, total, stage)
        IN /\ (~_needs_merge(task) /\ ~_needs_extract(task)) => r = f
           /\ _needs_extract(task) => r = (f * 9) \div 10
           /\ (_needs_merge(task) /\ stage = "downloading_video")
                => r = (f * 45) \div 100
           /\ (_needs_merge(task) /\ stage = "downloading_audio")
                => r = Pct(45) + (f * 45) \div 100

\* C12, amended: the same, the merge cases being those of a task whose output
\* is not an audio extraction (extraction takes precedence over merge).
C12_PercentFormula ==
    \A t \in DOMAIN tasks :
    \A downloaded \in {0, 250, 500, 1000, 1500}, total \in {4, 1000} :
    \A stage \in DownloadingStages :
        LET task == tasks[t]
            f == Fraction(downloaded, total)
            r == _calculate_overall_percent(task, downloaded, total, stage)
        IN /\ (~_needs_merge(task) /\ ~_needs_extract(task)) => r = f
           /\ _needs_extract(task) => r = (f * 9) \div 10
           /\ (_needs_merge(task) /\ ~_needs_extract(task) /\ stage = "downloading_video")
                => r = (f * 45) \div 100
           /\ (_needs_merge(task) /\ ~_needs_extract(task) /\ stage = "downloading_audio")
                => r = Pct(45) + (f * 45) \div 100

\* the spec's example: a merge, the audio stream at half, gives 67.5
C12_Witness ==
    \E t \in DOMAIN tasks :
        /\ _needs_merge(tasks[t]) /\ ~_needs_extract(tasks[t])
        /\ tasks[t].stage = "downloading_audio"
        /\ tasks[t].downloaded_bytes = 500
        /\ tasks[t].percent = 6750

\* C13: a transfer checkpoint that reports a total of zero leaves the task's
\* percent as it was, whatever the task requires and whatever the stage.
C13_ZeroTotal ==
    \A t \in DOMAIN tasks :
    \A d \in ProgressEvents :
        (d.status = "downloading" /\ d.total_bytes = 0)
        => progress_update(tasks[t], d).percent = tasks[t].percent

\* a task in mid-transfer whose percent a zero total would otherwise reset
C13_Witness ==
    \E w \in DOMAIN workers :
        /\ workers[w].pc = "checkpoint"
        /\ w[1] \in DOMAIN tasks
        /\ tasks[w[1]].percent > 0
        /\ tasks[w[1]].percent < Pct(95)

\* C14: every worker that took a slot gives it back when it exits, whatever
\* the path: the free slots and the slots held by live workers always add up
\* to N, so the free slots never exceed N and are N once every worker has gone.
C14_SlotReleased == semaphore + Cardinality(SlotHolders) = MaxConcurrent

\* every worker has gone, one of them after its relaxed attempt failed
C14_Witness ==
    /\ DOMAIN workers = {}
    /\ semaphore = MaxConcurrent
    /\ \E t \in DOMAIN tasks :
        /\ tasks[t].status = FAILED
        /\ tasks[t].error_message = FORMAT_UNAVAILABLE
        /\ tasks[t].output_format \notin AudioFormats

\* C15: within one run the engine is invoked again only to start the next
\* attempt of a strategy: the relaxed selection once, after a
\* format-unavailable failure of the first attempt of a non-audio output; the
\* browsers one by one in list order after an access-denied failure of the
\* first attempt; a failure of any other kind, and the failure of the relaxed
\* attempt, end the run.
C15_RetryPolicy ==
    [][\A w \in DOMAIN workers :
        w \in DOMAIN workers' =>
        LET a == workers[w]
            b == workers'[w]
            next_attempt == a.mode # b.mode \/ a.browser # b.browser
            relaxed == /\ a.mode = "primary" /\ b.mode = "fallback"
                       /\ Obj(w[1]).output_format \notin AudioFormats
            first_browser == a.mode = "primary" /\ b.mode = "cookies" /\ b.browser = 1
            next_browser == /\ a.mode = "cookies" /\ b.mode = "cookies"
                            /\ b.browser = a.browser + 1
                            /\ b.browser <= Len(Browsers)
        IN /\ next_attempt => relaxed \/ first_browser \/ next_browser
           /\ \A exc \in EngineErrors :
                engine_raise(w, exc) =>
                    \/ relaxed /\ _is_format_unavailable(exc)
                    \/ first_browser /\ _is_http_403(exc)
                    \/ next_browser]_vars

\* the last browser of the list is being tried
C15_Witness ==
    \E w \in DOMAIN workers :
        /\ workers[w].mode = "cookies"
        /\ workers[w].browser = Len(Browsers)
        /\ workers[w].pc = "transfer"

\* C16: save_state and then load_state into a new manager gives, for every
\* pending, downloading or paused task, a paused task of the same id, url and
\* output path, and for every completed, failed or cancelled task, a task
\* equal to it in every persisted field.
C16_Claim ==
    LET r == load_state(NewManager, save_state(Manager).file, next_id)
    IN \A t \in DOMAIN tasks :
        /\ t \in DOMAIN r.m.tasks
        /\ IF tasks[t].status \in {PENDING, DOWNLOADING, PAUSED}
           THEN /\ r.m.tasks[t].status = PAUSED
                /\ r.m.tasks[t].url = tasks[t].url
                /\ r.m.tasks[t].output_path = tasks[t].output_path
           ELSE r.m.tasks[t] = tasks[t]

NeverStarted == DOMAIN tasks \ DOMAIN threads

Loaded == load_state(NewManager, state_file, MaxEntries)

Reached(i) ==
    \A j \in 1..i : ~_restore_task(state_file.payload[j], 0).raised

C20_Claim ==
    LET registry == Loaded.m.tasks
        payload == state_file.payload
    IN /\ ~Loaded.raised
       /\ (~state_file.exists \/ ~state_file.parses \/ ~state_file.is_list)
            => registry = EmptyDict
       /\ \A i \in 1..Len(payload) :
            ( /\ payload[i].is_dict /\ payload[i].url # "" /\ payload[i].task_id > 0
              /\ UNPARSABLE \notin {payload[i].downloaded_bytes, payload[i].percent} )
            => payload[i].task_id \in DOMAIN registry
       /\ \A t \in DOMAIN registry :
            registry[t].downloaded_bytes >= 0 /\ registry[t].percent >= 0

\* C21: whenever a worker ends its run as cancelled because a checkpoint raised
\* the interruption (the cancellation of a paused task included), the partial
\* output file of the task is gone when the worker has exited, and
\* record_finish has been called for the task.
C21_Claim ==
    [][\A w \in DOMAIN workers :
        ( /\ \E d \in ProgressEvents : progress_hook(w, d)
          /\ Get(cancel_flags, w[1], FALSE)
          /\ w \notin DOMAIN workers'
          /\ w[1] \in DOMAIN tasks'
          /\ tasks'[w[1]].status = CANCELLED )
        => /\ {f \in files' : f[2] = w[1] /\ f[1] \in {"part", "out"}} = {}
           /\ w[1] \in DOMAIN history'.rows
           /\ history'.rows[w[1]].call = "record_finish"]_vars

\* C22: the history store is told of every transition: record_start is called
\* on every transition of a task into downloading (when a worker starts the
\* transfer and on resume), record_finish on every transition into completed,
\* failed or cancelled, whether the worker or cancel_task makes it (for a
\* completion, by the end of the worker's success steps); the row of the task
\* then carries that call and the new status.
C22_Claim ==
    /\ [][\A t \in DOMAIN tasks \cap DOMAIN tasks' :
            tasks[t].status # tasks'[t].status =>
              /\ tasks'[t].status = DOWNLOADING =>
                    /\ t \in DOMAIN history'.rows
                    /\ history'.rows[t] = Row("record_start", tasks'[t])
              /\ tasks'[t].status \in Terminal /\ ~(\E w \in DOMAIN workers' : w[1] = t /\ workers'[w].pc = "extracting") =>
                    /\ t \in DOMAIN history'.rows
                    /\ history'.rows[t] = Row("record_finish", tasks'[t])]_vars
    /\ [](\A t \in DOMAIN tasks :
            tasks[t].status \in Terminal /\ LiveOf(t) = {} =>
                /\ t \in DOMAIN history.rows
                /\ history.rows[t] = Row("record_finish", tasks[t]))

\* C23: every change of a task's status, stage or progress that the worker or
\* pause_task, resume_task or cancel_task makes is followed, before the worker
\* exits or the call returns, by a notification that carries the new snapshot:
\* when a call has returned, and when a task has no worker left, the listener
\* has been given the task as it now reads.  This covers every transition into
\* completed, failed or cancelled, the one after a fallback attempt included.
C23_Claim ==
    /\ [][\A t \in DOMAIN tasks :
            PauseTask(t) \/ ResumeTask(t) \/ CancelTask(t) =>
                /\ t \in DOMAIN notified'
                /\ notified'[t] = Snapshot(tasks'[t])]_vars
    /\ [](\A t \in DOMAIN tasks :
            LiveOf(t) = {} =>
                /\ t \in DOMAIN notified
                /\ notified[t] = Snapshot(tasks[t]))

C25_ClearContract ==
    LET r == clear_completed
        Completed == {t \in DOMAIN tasks : tasks[t].status = COMPLETED}
    IN /\ DOMAIN r.m.tasks = DOMAIN tasks \ Completed
       /\ r.ret = Cardinality(DOMAIN tasks \ DOMAIN r.m.tasks)
       /\ \A t \in DOMAIN tasks \ Completed :
             /\ r.m.tasks[t] = tasks[t]
             /\ t \in DOMAIN r.m.pause_events
             /\ r.m.pause_events[t] = pause_events[t]
             /\ r.m.cancel_flags[t] = cancel_flags[t]
             /\ r.m.threads[t] = threads[t]
             /\ {f \in r.m.files : f[2] = t} = {f \in files : f[2] = t}
       /\ r.m.workers = workers

\* clear_completed has removed the first task, whose worker had ended, and has
\* left the second one, which is cancelled
C25_Witness ==
    /\ next_id = 2
    /\ DOMAIN tasks = {2}
    /\ tasks[2].status = CANCELLED
    /\ 1 \notin DOMAIN detached
    /\ LiveOf(1) = {}
    /\ \A f \in files : f[2] # 1

\* C26: create_task returns an id that no registered task has, and leaves
\* every registered task in the registry as it was; the registry's key of a
\* task is the task's id, so a task that stays registered keeps it.
C26_Claim ==
    [][\A id \in 1..PoolTasks, p \in PoolProfiles :
          CreateTaskAs(id, p) =>
              /\ create_task_as(id, p).ret \notin DOMAIN tasks
              /\ \A t \in DOMAIN tasks : t \in DOMAIN tasks' /\ tasks'[t] = tasks[t]]_vars

\* C27: a registered task whose cancel flag is set (cancel_task has returned
\* true for it) and whose status is cancelled keeps the status cancelled in
\* every step, whichever of the worker's steps or of the callers' pause_task
\* and resume_task calls the step is.
C27_Claim ==
    [][\A t \in DOMAIN tasks \cap DOMAIN tasks' :
          (Get(cancel_flags, t, FALSE) /\ tasks[t].status = CANCELLED)
          => tasks'[t].status = CANCELLED]_vars

\* the worker has not gone past the test of line 401
Waiting(w) == workers[w].pc \in {"queued", "acquired"}

\* C28: a worker that has not yet gone past its first test, and whose task has
\* the cancel flag set, either keeps waiting or ends its run in one step that
\* leaves the status cancelled, gives the callback that snapshot, records the
\* finish in the ledger, frees the slot and writes no file; it never goes on to
\* mark the task downloading or to call the engine.
C28_QueuedCancel ==
    [][\A w \in DOMAIN workers :
          (Waiting(w) /\ w[1] \in DOMAIN tasks /\ Get(cancel_flags, w[1], FALSE))
          => \/ w \in DOMAIN workers' /\ Waiting(w)'
             \/ /\ w \notin DOMAIN workers'
                /\ check_cancelled(w)
                /\ tasks'[w[1]].status = CANCELLED
                /\ notified'[w[1]] = Snapshot(tasks'[w[1]])
                /\ history'.rows[w[1]] = Row("record_finish", tasks'[w[1]])
                /\ semaphore' = semaphore + 1
                /\ files' = files]_vars

\* the worker of a task cancelled before its run began has ended: the path was
\* never resolved, no file was written, the ledger has the finish
C28_Witness ==
    /\ 1 \in DOMAIN tasks
    /\ tasks[1].status = CANCELLED
    /\ ~tasks[1].output_path
    /\ LiveOf(1) = {}
    /\ semaphore = MaxConcurrent
    /\ files = {}
    /\ history.rows[1] = Row("record_finish", tasks[1])
    /\ notified[1] = Snapshot(tasks[1])

\* the checkpoint of worker w raised instead of updating: the task's stage is
\* as it was or the cancelled of the worker's handler, the percent and the
\* byte count are as they were, and the worker has left the engine run
Interrupted(w) ==
    /\ tasks'[w[1]].stage \in {tasks[w[1]].stage, CANCELLED}
    /\ tasks'[w[1]].percent = tasks[w[1]].percent
    /\ tasks'[w[1]].downloaded_bytes = tasks[w[1]].downloaded_bytes
    /\ w \in DOMAIN workers' => workers'[w].pc \notin {"transfer", "postproc"}

\* C29: with the cancel flag of its task set, a call of the worker's transfer
\* checkpoint and a call of its post-processing checkpoint both raise instead
\* of updating the task's stage, percent or progress.
C29_Claim ==
    [][\A w \in DOMAIN workers :
          (w[1] \in DOMAIN tasks /\ Get(cancel_flags, w[1], FALSE))
          => /\ (\E d \in PlainProgress : progress_hook(w, d)) => Interrupted(w)
             /\ (\E d \in PlainPostprocessor : postprocessor_hook(w, d)) => Interrupted(w)]_vars

\* C30: a registered task whose status is paused is left as it is by every
\* step (status, stage, percent and byte count) except a resume_task call,
\* which makes it downloading, and a cancel_task call, which makes it
\* cancelled.
C30_Claim ==
    [][\A t \in DOMAIN tasks \cap DOMAIN tasks' :
          tasks[t].status = PAUSED
          => \/ Snapshot(tasks'[t]) = Snapshot(tasks[t])
             \/ ResumeTask(t) /\ tasks'[t].status = DOWNLOADING
             \/ CancelTask(t) /\ tasks'[t].status = CANCELLED]_vars

\* C31: under fair scheduling a task that is pending or downloading eventually
\* is completed, failed, cancelled, removed or paused, and its worker
\* eventually exits once the task is terminal; so a task that is not left
\* paused for ever ends in a terminal status.
C31_Claim ==
    \A t \in 1..MaxTasks :
        /\ (t \in DOMAIN tasks /\ tasks[t].status \notin Terminal \cup {PAUSED})
              ~> (t \in DOMAIN tasks => tasks[t].status \in Terminal \cup {PAUSED})
        /\ (t \in DOMAIN tasks /\ tasks[t].status \in Terminal)
              ~> (LiveOf(t) = {} \/ (t \in DOMAIN tasks /\ tasks[t].status \notin Terminal))

\* C32: the message caught at line 461 is kept through the retries of the run
\* (a worker that starts a retry holds the message of the failure that caused
\* it, and holds the same message in every later attempt), and a run that ends
\* as failed after an engine-reported failure leaves status and stage failed
\* and error_message equal to that first message: the failure itself when no
\* retry applied, the worker's kept message when the relaxed attempt failed or
\* the last browser was exhausted, whatever the failure of the retry was.
C32_OriginalMessage ==
    [][\A w \in DOMAIN workers, exc \in EngineErrors :
          engine_raise(w, exc) =>
              LET me == workers[w]
                  t == w[1]
              IN /\ (w \in DOMAIN workers' /\ me.mode = "primary")
                       => workers'[w].error_msg = exc /\ exc \in EngineErrors \ {"exception"}
                 /\ (w \in DOMAIN workers' /\ me.mode # "primary")
                       => workers'[w].error_msg = me.error_msg
                 /\ ( /\ w \notin DOMAIN workers'
                      /\ t \in DOMAIN tasks'
                      /\ tasks'[t].status = FAILED
                      /\ me.mode = "primary" => exc \in EngineErrors \ {"exception"} )
                       => /\ tasks'[t].stage = FAILED
                          /\ tasks'[t].error_message =
                                IF me.mode = "primary" THEN exc ELSE me.error_msg
                          /\ tasks'[t].error_message \in EngineErrors \ {"exception"}]_vars

\* a run has ended as failed with the access-denied message of its first
\* attempt, after the last browser of the list
C32_Witness ==
    \E t \in DOMAIN tasks :
        /\ tasks[t].status = FAILED
        /\ tasks[t].stage = FAILED
        /\ tasks[t].error_message = HTTP_403
        /\ LiveOf(t) = {}

\* the worker w is in the relaxed attempt of its run
InFallback(w) == w \in DOMAIN workers /\ workers[w].mode = "fallback"

\* C33: a relaxed attempt that fails (the engine raises, or a checkpoint
\* interrupts it) ends with the task's format_id, has_audio and has_video as
\* they were before the attempt; the selection of a registered task changes
\* only when a relaxed attempt starts and when a failed one restores it; and a
\* task whose selection is not the one it was created with has a relaxed
\* attempt in progress or ended one that returned (completed, or cancelled
\* after the return).
C33_SelectionRestored ==
    /\ [][\A w \in DOMAIN workers :
            LET t == w[1]
                raised == \/ \E exc \in EngineErrors : engine_raise(w, exc)
                          \/ \E d \in RetryProgress : progress_hook(w, d) /\ w \notin DOMAIN workers'
            IN /\ (InFallback(w) /\ raised /\ t \in DOMAIN tasks')
                     => Original(tasks'[t]) = workers[w].orig
               /\ (t \in DOMAIN tasks /\ t \in DOMAIN tasks'
                   /\ Original(tasks'[t]) # Original(tasks[t]))
                     => \/ ~InFallback(w) /\ InFallback(w)'
                           /\ workers'[w].orig = Original(tasks[t])
                           /\ tasks'[t] = Relaxed(tasks[t])
                        \/ InFallback(w) /\ w \notin DOMAIN workers'
                           /\ Original(tasks'[t]) = workers[w].orig]_vars
    /\ [](\A t \in DOMAIN tasks :
            tasks[t].format_id # DownloadTask([url |-> URL, output_format |-> "mp4",
                                               has_audio |-> TRUE]).format_id
            => \/ \E w \in LiveOf(t) : InFallback(w)
               \/ tasks[t].status \in {COMPLETED, CANCELLED})

\* a run has ended as failed after a relaxed attempt that failed: the task
\* has the selection it was created with, which the relaxed one differs from
C33_Witness ==
    \E t \in DOMAIN tasks :
        /\ tasks[t].status = FAILED
        /\ tasks[t].error_message = FORMAT_UNAVAILABLE
        /\ tasks[t].output_format \notin AudioFormats
        /\ ~BuildRaises(Relaxed(tasks[t]))
        /\ Original(Relaxed(tasks[t])) # Original(tasks[t])
        /\ LiveOf(t) = {}

\* the worker w ends its run in this step, leaving its task completed
Completes(w) ==
    /\ mark_completed(w) \/ \E ok \in BOOLEAN : extract_audio_done(w, ok)
    /\ w \notin DOMAIN workers'
    /\ w[1] \in DOMAIN tasks'
    /\ tasks'[w[1]].status = COMPLETED

\* what the success steps leave behind when worker w ends its run: percent
\* 100, stage completed (unless the sidecar pass ran and ffmpeg failed), the
\* sidecar pass run where _extract_audio requires it, no partial fragment, the
\* ledger's row a finish with the task's status, the callback given the task
\* as it is
SuccessSteps(w) ==
    LET t == w[1]
    IN /\ tasks'[t].percent = Pct(100)
       /\ tasks'[t].stage = COMPLETED \/ workers[w].pc = "extracting"
       /\ ExtractsAudio(t, tasks'[t]) => workers[w].pc = "extracting"
       /\ <<"part", t>> \notin files'
       /\ t \in DOMAIN history'.rows
       /\ history'.rows[t] = Row("record_finish", tasks'[t])
       /\ t \in DOMAIN notified'
       /\ notified'[t] = Snapshot(tasks'[t])

\* C34: every worker that ends its run leaving the task completed, in its
\* first attempt or in a retry, has performed the success steps.
C34_Claim ==
    [][\A w \in DOMAIN workers : Completes(w) => SuccessSteps(w)]_vars

\* C35: in every reachable state a registered task whose status is not failed
\* has an empty error_message.
C35_Claim ==
    \A t \in DOMAIN tasks : tasks[t].error_message # "" => tasks[t].status = FAILED

\* C36: in every reachable state the percent of every task, registered or
\* removed with a worker still running, lies between 0 and 100.
C36_PercentRange ==
    /\ \A t \in DOMAIN tasks : tasks[t].percent >= 0 /\ tasks[t].percent <= Pct(100)
    /\ \A t \in DOMAIN detached : detached[t].percent >= 0 /\ detached[t].percent <= Pct(100)

\* the engine has reported more bytes than the total of the stream, for a task
\* with no merge and no extraction, and the percent reads 100 during the
\* transfer
C36_Witness ==
    \E t \in DOMAIN tasks :
        /\ tasks[t].status = DOWNLOADING
        /\ tasks[t].stage = "downloading"
        /\ tasks[t].downloaded_bytes = 1500
        /\ ~_needs_merge(tasks[t]) /\ ~_needs_extract(tasks[t])
        /\ tasks[t].percent = Pct(100)

\* C37: in every reachable state each task whose status is downloading has a
\* live worker that is past its acquire and has not released, and the tasks in
\* status downloading are at most N.
C37_Claim ==
    /\ \A t \in DOMAIN tasks :
          tasks[t].status = DOWNLOADING => LiveOf(t) \cap SlotHolders # {}
    /\ Cardinality({t \in DOMAIN tasks : tasks[t].status = DOWNLOADING}) <= MaxConcurrent

\* C38: a worker whose task was cancelled and then removed makes no progress
\* update (the checkpoint it calls ends its run), never runs the steps that
\* mark the task completed, and never leaves a completed row in the ledger.
C38_Claim ==
    [][\A w \in DOMAIN workers :
          ( /\ w[1] \notin DOMAIN tasks
            /\ w[1] \in DOMAIN detached
            /\ detached[w[1]].status = CANCELLED )
          => /\ \A d \in PlainProgress : progress_hook(w, d) => w \notin DOMAIN workers'
             /\ ~mark_completed(w)
             /\ (w[1] \in DOMAIN history'.rows /\ w[1] \notin DOMAIN tasks')
                   => history'.rows[w[1]].status # COMPLETED]_vars

\* C39: a worker whose task has the cancel flag set starts no attempt: it does
\* not pass from the first attempt to the relaxed selection or to the first
\* browser, nor from one browser to the next.
C39_Claim ==
    [][\A w \in DOMAIN workers :
          (w[1] \in DOMAIN tasks /\ Get(cancel_flags, w[1], FALSE) /\ w \in DOMAIN workers')
          => /\ workers'[w].mode = workers[w].mode
             /\ workers'[w].browser = workers[w].browser]_vars

\* the workers waiting in pause_event.wait()
AtGate == {w \in DOMAIN workers : workers[w].pc = "blocked"}

\* C40: pausing a task and blocking at the gate leave the free slots as they
\* are; while N workers wait at the gate no slot is free and no worker is
\* between its acquire and its transfer; and a step that takes a task from
\* pending to downloading happens only with fewer than N workers at the gate,
\* before and after it.
C40_GateKeepsSlot ==
    /\ [](Cardinality(AtGate) = MaxConcurrent
            => /\ semaphore = 0
               /\ \A w \in DOMAIN workers : workers[w].pc \notin {"acquired", "marking"})
    /\ [][/\ \A t \in 1..PoolTasks : PauseTask(t) => semaphore' = semaphore
          /\ \A w \in DOMAIN workers :
                (progress_hook_wait(w) /\ workers'[w].pc = "blocked")
                => semaphore' = semaphore
          /\ \A t \in DOMAIN tasks \cap DOMAIN tasks' :
                (tasks[t].status = PENDING /\ tasks'[t].status = DOWNLOADING)
                => /\ Cardinality(AtGate) < MaxConcurrent
                   /\ Cardinality(AtGate') < MaxConcurrent]_vars

\* every slot is held by a worker waiting at the gate of a paused task, while
\* a pending task's worker queues
C40_Witness ==
    /\ Cardinality(AtGate) = MaxConcurrent
    /\ \A w \in AtGate : w[1] \in DOMAIN tasks /\ tasks[w[1]].status = PAUSED
    /\ \E w \in DOMAIN workers :
          /\ workers[w].pc = "queued"
          /\ w[1] \in DOMAIN tasks
          /\ tasks[w[1]].status = PENDING

====
